---- MODULE Spec2Model ----
(***************************************************************************)
(* Shared session state engine of the collaborative canvas:                *)
(*   - DrawingState  (src/server/drawing-state.js): the per-room log       *)
(*   - DrawingRoom / RoomManager (src/server/rooms.js)                     *)
(*   - the WebSocket connection handler (src/unnamed/part_000, server.js)  *)
(*                                                                         *)
(* JavaScript objects are records whose DOMAIN is the object's key set; a  *)
(* key that is present with the value `undefined` is present in DOMAIN and *)
(* maps to Undefined.  Client-supplied JSON values are opaque tokens       *)
(* (strings); the server never computes with them.                         *)
(***************************************************************************)
EXTENDS Integers, Sequences, FiniteSets, TLC

\* ------------------------------------------------------------------ bounds
\* maxHistorySize is 500 in the source (drawing-state.js:29); the model is
\* parametric in it and is checked with a scaled-down capacity.
maxHistorySize == 2
\* Number of steps (method calls and clock ticks) of a run of LogSpec.
MaxCalls == 6
\* Number of events (connections, messages, closes, clock ticks, sweeps) of a run of Spec.
MaxEvents == 6
\* Number of events (connections, messages) of a run of EditSpec.
MaxEdits == 7
\* Number of steps of a run of SessionSpec.
MaxSteps == 8
\* Value of a reconnection counter at which ReconnectSpec stops following it.
RetryCap == 7
\* CanvasManager.maxHistoryStates (50 in the source): the number of canvas
\* snapshots a tab keeps.
maxHistoryStates == 3
\* Number of steps of a run of CanvasSpec.
MaxSnaps == 7

\* ------------------------------------------------------- JavaScript values
Undefined == "undefined"
Null == "null"

\* obj.k : a missing key reads as undefined
Get(obj, k) == IF k \in DOMAIN obj THEN obj[k] ELSE Undefined

\* the operand of `a || b` is falsy when it is undefined, null or ""
Truthy(v) == v \notin {Undefined, Null, ""}

\* { ...a, ...b } : keys of b override keys of a
Spread(a, b) == b @@ a

\* the last element of an array, the array without it, and the ids in a history
Last(s) == s[Len(s)]

Front(s) == SubSeq(s, 1, Len(s) - 1)

Ids(history) == [i \in 1..Len(history) |-> history[i].id]

\* uuidv4(): the n-th value minted by the process
uuidv4(n) == "u" \o ToString(n)

VARIABLES
    ds,         \* LogSpec: one DrawingState instance
    call,       \* LogSpec: the last DrawingState method called, its argument,
                \*          its return value and the instance before the call
    now,        \* the value Date.now() returns
    nextUuid,   \* number of uuidv4() values minted so far
    ncalls,     \* LogSpec: number of steps taken
    rooms,      \* RoomManager.rooms: room id -> room object (0: no entry)
    heap,       \* every DrawingRoom object constructed so far, by reference
    conn,       \* per connection: the closure variables of wss.on('connection')
    sent,       \* what the last event sent: <<[to |-> ws, msg |-> message], ...>>
    last,       \* the last event, its input and the server state before it
    nevents,    \* Spec: number of events taken
    apps        \* per browser tab: the fields of its WebSocketManager,
                \*          DrawingApp and CanvasManager

logVars == <<ds, call, ncalls>>
serverVars == <<rooms, heap, conn, sent, last, nevents>>
vars == <<ds, call, now, nextUuid, ncalls, rooms, heap, conn, sent, last, nevents, apps>>

\* ------------------------------------------------------------ DrawingState
newDrawingState(t) ==
    [ drawingHistory   |-> <<>>,
      operationHistory |-> <<>>,
      operationStack   |-> <<>>,
      redoStack        |-> <<>>,
      createdAt        |-> t ]

validTypes == {"DRAW", "ERASE", "CLEAR_CANVAS"}
requiredBaseFields == {"type", "userId", "timestamp"}
requiredDrawFields == {"x0", "y0", "x1", "y1", "color", "size"}
requiredEraseFields == {"x0", "y0", "x1", "y1", "size"}

\* mutant: the base fields and the type are tested, the fields of the kind are not
validateTypeOnly(operation) ==
    /\ requiredBaseFields \subseteq DOMAIN operation
    /\ operation.type \in validTypes

\* `field in operation` tests the presence of the key, not its value
validateOperation(operation) ==
    /\ requiredBaseFields \subseteq DOMAIN operation
    /\ operation.type \in validTypes
    /\ (operation.type = "DRAW" => requiredDrawFields \subseteq DOMAIN operation)
    /\ (operation.type = "ERASE" => requiredEraseFields \subseteq DOMAIN operation)

\* mutant: the push without the capacity check
pushNoTrim(history, enrichedOp) == Append(history, enrichedOp)

\* mutant: pop() in place of shift(): the newest entry is dropped, not the oldest
pushAndPop(history, enrichedOp) ==
    LET pushed == Append(history, enrichedOp)
    IN  IF Len(pushed) > maxHistorySize THEN SubSeq(pushed, 1, Len(pushed) - 1) ELSE pushed

\* mutant: the operation is inserted before the first one with a later client
\* timestamp
pushByTimestamp(history, enrichedOp) ==
    LET later == {i \in 1..Len(history) : history[i].timestamp = "t2"
                                          /\ enrichedOp.timestamp = "t1"}
        at == IF later = {} THEN Len(history) + 1
              ELSE CHOOSE i \in later : \A j \in later : i <= j
        pushed == SubSeq(history, 1, at - 1) \o <<enrichedOp>>
                  \o SubSeq(history, at, Len(history))
    IN  IF Len(pushed) > maxHistorySize THEN Tail(pushed) ELSE pushed

\* drawingHistory.push(enrichedOp); if (length > maxHistorySize) shift()
pushAndTrim(history, enrichedOp) ==
    LET pushed == Append(history, enrichedOp)
    IN  IF Len(pushed) > maxHistorySize THEN Tail(pushed) ELSE pushed

\* mutant: the redo stack survives an append
redoKept(redoStack) == redoStack

\* the redo stack after an accepted append (this.redoStack = [])
redoAfterAppend(redoStack) == <<>>

\* addOperation(operation): uuid is the value uuidv4() would return, t is Date.now()
\* mutant: an accepted append is entered in the audit trail as well
addOperationAudited(d, operation, uuid, t) ==
    IF ~validateOperation(operation)
    THEN [ok |-> FALSE, ds |-> d]
    ELSE LET opId == Get(operation, "operationId")
             enrichedOp == Spread(operation,
                                  [id |-> IF Truthy(opId) THEN opId ELSE uuid,
                                   addedAt |-> t])
         IN  [ok |-> TRUE,
              ds |-> [d EXCEPT !.drawingHistory = pushAndTrim(@, enrichedOp),
                               !.operationStack = Append(@, operation),
                               !.redoStack = redoAfterAppend(@),
                               !.operationHistory = Append(@, enrichedOp)]]

addOperation(d, operation, uuid, t) ==
    IF ~validateOperation(operation)
    THEN [ok |-> FALSE, ds |-> d]
    ELSE LET opId == Get(operation, "operationId")
             enrichedOp == Spread(operation,
                                  [id |-> IF Truthy(opId) THEN opId ELSE uuid,
                                   addedAt |-> t])
         IN  [ok |-> TRUE,
              ds |-> [d EXCEPT !.drawingHistory = pushAndTrim(@, enrichedOp),
                               !.operationStack = Append(@, operation),
                               !.redoStack = redoAfterAppend(@)]]

\* Array.prototype.findIndex(op => op.id === id): first match, 0 for -1
findIndex(history, id) ==
    IF \E i \in 1..Len(history) : history[i].id = id
    THEN CHOOSE i \in 1..Len(history) :
            /\ history[i].id = id
            /\ \A j \in 1..(i-1) : history[j].id # id
    ELSE 0

\* mutant: undo-last, the tail is removed whatever the index found
spliceLast(history, i) == SubSeq(history, 1, Len(history) - 1)

\* mutant: the element is read and left in the array (slice, not splice)
spliceNone(history, i) == history

\* Array.prototype.splice(i, 1): the array without its i-th element
splice(history, i) ==
    [k \in 1..(Len(history) - 1) |-> IF k < i THEN history[k] ELSE history[k+1]]

\* mutant: the audit record is written before the index is tested
recordUndoAudited(d, undoOp, t) ==
    LET operationIndex == findIndex(d.drawingHistory, Get(undoOp, "operationId"))
        audited == [d EXCEPT !.operationHistory = Append(@,
                        Spread(Spread([type |-> "UNDO"], undoOp),
                               [removedOperationId |-> Get(undoOp, "operationId"),
                                timestamp |-> t]))]
    IN  IF operationIndex = 0
        THEN [ok |-> FALSE, ds |-> audited]
        ELSE LET removedOperation == d.drawingHistory[operationIndex]
             IN  [ok |-> TRUE,
                  ds |-> [audited EXCEPT
                     !.drawingHistory = splice(@, operationIndex),
                     !.redoStack = Append(@, removedOperation)]]

recordUndo(d, undoOp, t) ==
    LET operationIndex == findIndex(d.drawingHistory, Get(undoOp, "operationId"))
    IN  IF operationIndex = 0
        THEN [ok |-> FALSE, ds |-> d]
        ELSE LET removedOperation == d.drawingHistory[operationIndex]
             IN  [ok |-> TRUE,
                  ds |-> [d EXCEPT
                     !.drawingHistory = splice(@, operationIndex),
                     !.redoStack = Append(@, removedOperation),
                     !.operationHistory = Append(@,
                        Spread(Spread([type |-> "UNDO"], undoOp),
                               [removedOperationId |-> Get(undoOp, "operationId"),
                                timestamp |-> t]))]]

\* mutant: the restored operation is put back at the front (unshift)
recordRedoFront(d, redoOp, t) ==
    IF Len(d.redoStack) = 0
    THEN [ok |-> FALSE, ds |-> d]
    ELSE LET operation == d.redoStack[Len(d.redoStack)]
         IN  [ok |-> TRUE,
              ds |-> [d EXCEPT
                 !.redoStack = SubSeq(@, 1, Len(@) - 1),
                 !.drawingHistory = <<operation>> \o @,
                 !.operationHistory = Append(@,
                    Spread(Spread([type |-> "REDO"], redoOp),
                           [readdedOperationId |-> operation.id,
                            timestamp |-> t]))]]

\* mutant: the restored operation is stamped again on its way back
recordRedoRestamped(d, redoOp, t) ==
    IF Len(d.redoStack) = 0
    THEN [ok |-> FALSE, ds |-> d]
    ELSE LET operation == [d.redoStack[Len(d.redoStack)] EXCEPT !.addedAt = t]
         IN  [ok |-> TRUE,
              ds |-> [d EXCEPT
                 !.redoStack = SubSeq(@, 1, Len(@) - 1),
                 !.drawingHistory = Append(@, operation),
                 !.operationHistory = Append(@,
                    Spread(Spread([type |-> "REDO"], redoOp),
                           [readdedOperationId |-> operation.id,
                            timestamp |-> t]))]]

recordRedo(d, redoOp, t) ==
    IF Len(d.redoStack) = 0
    THEN [ok |-> FALSE, ds |-> d]
    ELSE LET operation == d.redoStack[Len(d.redoStack)]
         IN  [ok |-> TRUE,
              ds |-> [d EXCEPT
                 !.redoStack = SubSeq(@, 1, Len(@) - 1),
                 !.drawingHistory = Append(@, operation),
                 !.operationHistory = Append(@,
                    Spread(Spread([type |-> "REDO"], redoOp),
                           [readdedOperationId |-> operation.id,
                            timestamp |-> t]))]]

getHistory(d) == d.drawingHistory

getOperationHistory(d) == d.operationHistory

clear(d) ==
    [d EXCEPT !.drawingHistory = <<>>,
              !.operationHistory = <<>>,
              !.operationStack = <<>>,
              !.redoStack = <<>>]

\* ------------------------------------------------------------- DrawingRoom
USER_COLORS ==
    << "#FF6B6B", "#4ECDC4", "#45B7D1", "#FFA07A",
       "#98D8C8", "#F7DC6F", "#BB8FCE", "#85C1E2",
       "#F8B88B", "#A8D8EA", "#AA96DA", "#FCBAD3" >>

\* the connections (WebSocket objects) a run may open, in the order they open
Conns == <<"w1", "w2", "w3">>

ConnSet == {Conns[i] : i \in 1..Len(Conns)}

\* the room names a JOIN_ROOM may carry ('default' when it carries none)
RoomIds == {"default", "r1"}

\* a null object reference
NullObj == [null |-> TRUE]

\* a null room reference (heap holds rooms at 1, 2, ...)
NoRoom == 0

newDrawingRoom(roomId, t) ==
    [ id             |-> roomId,
      clients        |-> <<>>,      \* Map in insertion order: <<[ws, info], ...>>
      drawingState   |-> newDrawingState(t),
      userColorIndex |-> 0,
      createdAt      |-> t,
      lastActivityAt |-> t ]

\* Map.prototype.set(ws, info): replaces the value of an existing key in place
mapSet(clients, ws, info) ==
    IF \E i \in 1..Len(clients) : clients[i].ws = ws
    THEN [i \in 1..Len(clients) |->
             IF clients[i].ws = ws THEN [ws |-> ws, info |-> info] ELSE clients[i]]
    ELSE Append(clients, [ws |-> ws, info |-> info])

mapHas(clients, ws) == \E i \in 1..Len(clients) : clients[i].ws = ws

mapGet(clients, ws) ==
    IF mapHas(clients, ws)
    THEN clients[CHOOSE i \in 1..Len(clients) : clients[i].ws = ws].info
    ELSE NullObj

mapDelete(clients, ws) == SelectSeq(clients, LAMBDA e : e.ws # ws)

\* Whether the identifier `color` of the object literal at rooms.js:69 is bound.
\* The literal uses the shorthand `color,` (that is color: color); the only
\* binding in scope is `assignedColor` (line 62), and the module declares no
\* `color`, so evaluating the literal throws ReferenceError.
\* (the literal as it would read with the palette color bound: color: assignedColor)
colorBound == TRUE

colorInScope == FALSE

\* addClient(ws, userId, username): [threw, room, clientInfo].  The statements
\* run in source order, so the counter is already incremented when line 69 throws.
addClient(room, ws, userId, username, t) ==
    LET assignedColor == USER_COLORS[(room.userColorIndex % Len(USER_COLORS)) + 1]
        counted == [room EXCEPT !.userColorIndex = @ + 1]
        clientInfo == [userId |-> userId, username |-> username,
                       color |-> assignedColor,
                       joinedAt |-> t, lastActivityAt |-> t, isActive |-> TRUE]
    IN  IF ~colorInScope
        THEN [threw |-> TRUE, room |-> counted, clientInfo |-> NullObj]
        ELSE [threw |-> FALSE,
              room |-> [counted EXCEPT !.clients = mapSet(@, ws, clientInfo),
                                       !.lastActivityAt = t],
              clientInfo |-> clientInfo]

\* removeClient(ws): [room, clientInfo]
removeClient(room, ws) ==
    IF mapHas(room.clients, ws)
    THEN [room |-> [room EXCEPT !.clients = mapDelete(@, ws)],
          clientInfo |-> mapGet(room.clients, ws)]
    ELSE [room |-> room, clientInfo |-> NullObj]

\* JSON.stringify of a flat object: keys whose value is undefined are left out
stringify(obj) == [k \in {k \in DOMAIN obj : obj[k] # Undefined} |-> obj[k]]

\* JSON.stringify of a stored operation (addedAt is a number, the rest are
\* client values)
stringifyOp(op) ==
    [k \in {k \in DOMAIN op : k = "addedAt" \/ op[k] # Undefined} |-> op[k]]

\* JSON.stringify of an audit record (timestamp is a number)
stringifyAudit(rec) ==
    [k \in {k \in DOMAIN rec : k = "timestamp" \/ rec[k] # Undefined} |-> rec[k]]

\* JSON.stringify of the two arrays LOAD_HISTORY carries
stringifyOps(seq) == [i \in 1..Len(seq) |-> stringifyOp(seq[i])]

stringifyAudits(seq) == [i \in 1..Len(seq) |-> stringifyAudit(seq[i])]

\* ws.readyState === 1 (OPEN)
isOpen(cs, ws) == cs[ws].state = "open"

\* ws.send(message) on connection ws: the call made, and whether it returned
\* (ok) or threw; broken is the set of connections whose send throws
send(ws, message, broken) == [to |-> ws, msg |-> message, ok |-> ws \notin broken]

\* mutant: the message goes to every open connection of the server
broadcastEveryone(room, message, excludeWs, cs, broken) ==
    LET targets == SelectSeq(Conns, LAMBDA c : isOpen(cs, c) /\ c # excludeWs)
    IN  [i \in 1..Len(targets) |-> send(targets[i], message, broken)]

\* broadcast(data, excludeWs): the sends it makes, in Map order; message is the
\* serialized data.  Each send sits in its own try/catch, so a throw is logged
\* and the loop goes on.
broadcast(room, message, excludeWs, cs, broken) ==
    LET targets == SelectSeq(room.clients,
                             LAMBDA e : isOpen(cs, e.ws) /\ e.ws # excludeWs)
    IN  [i \in 1..Len(targets) |-> send(targets[i].ws, message, broken)]

\* no connection is named "": broadcast(data, null) excludes nobody
NoWs == ""

broadcastAll(room, message, cs, broken) == broadcast(room, message, NoWs, cs, broken)

getActiveUsers(room) ==
    LET active == SelectSeq(room.clients, LAMBDA e : e.info.isActive)
    IN  [i \in 1..Len(active) |->
            [userId |-> active[i].info.userId, username |-> active[i].info.username,
             color |-> active[i].info.color, joinedAt |-> active[i].info.joinedAt]]

getClientCount(room) == Len(room.clients)

isEmpty(room) == Len(room.clients) = 0

\* recordOperation(operation): the return value of addOperation is ignored
recordOperation(room, operation, uuid, t) ==
    [room EXCEPT !.drawingState = addOperation(@, operation, uuid, t).ds,
                 !.lastActivityAt = t]

getDrawingHistory(room) == getHistory(room.drawingState)

clearDrawing(room, t) ==
    [room EXCEPT !.drawingState = clear(@), !.lastActivityAt = t]

getStats(room, t) ==
    [ id |-> room.id,
      clientCount |-> Len(room.clients),
      operationCount |-> Len(getHistory(room.drawingState)),
      createdAt |-> room.createdAt,
      lastActivityAt |-> room.lastActivityAt,
      uptime |-> t - room.createdAt,
      users |-> getActiveUsers(room) ]

destroy(room) == [room EXCEPT !.clients = <<>>, !.drawingState = clear(@)]

\* ------------------------------------------------------------- RoomManager
\* The server state the handlers work on: W.rooms, W.heap, W.conn, W.nextUuid.
getOrCreateRoom(W, roomId, t) ==
    IF W.rooms[roomId] = NoRoom
    THEN [W EXCEPT !.heap = Append(@, newDrawingRoom(roomId, t)),
                   !.rooms[roomId] = Len(W.heap) + 1]
    ELSE W

deleteRoom(W, roomId) ==
    IF W.rooms[roomId] # NoRoom
    THEN [W EXCEPT !.heap[W.rooms[roomId]] = destroy(@),
                   !.rooms[roomId] = NoRoom]
    ELSE W

\* const oneHourInMs = 60 * 60 * 1000, in the unit of the clock `now`: one hour
oneHourInMs == 1

\* the rooms one run of the cleanup callback deletes, one after another
RECURSIVE deleteRooms(_, _)
deleteRooms(W, ids) ==
    IF ids = {} THEN W
    ELSE LET roomId == CHOOSE r \in ids : TRUE
         IN  deleteRooms(deleteRoom(W, roomId), ids \ {roomId})

\* the callback startCleanupInterval installs, run at time t: every room that
\* is empty and whose last activity lies more than one hour back is deleted
roomCleanup(W, t) ==
    LET inactivityThreshold == t - oneHourInMs
    IN  deleteRooms(W, {roomId \in DOMAIN W.rooms :
                           /\ W.rooms[roomId] # NoRoom
                           /\ isEmpty(W.heap[W.rooms[roomId]])
                           /\ W.heap[W.rooms[roomId]].lastActivityAt < inactivityThreshold})

\* ------------------------------------------ connection handler (server.js)
\* Each handler maps the server state W and one inbound message to
\* [W, sent, threw]: the state after it, the sends it made in order, and whether
\* it ended by throwing (what it did before the throw stays done).

\* the message text that JSON.parse rejects
BadJson == [unparseable |-> TRUE]

handleJoinRoom(W, ws, data, t, broken) ==
    LET roomId == IF Truthy(Get(data, "roomId")) THEN data.roomId ELSE "default"
        username == IF Truthy(Get(data, "username")) THEN data.username
                    ELSE W.conn[ws].username
        W1 == getOrCreateRoom(W, roomId, t)
        ref == W1.rooms[roomId]
        r == addClient(W1.heap[ref], ws, W.conn[ws].userId, username, t)
        W2 == [W1 EXCEPT !.heap[ref] = r.room,
                         !.conn[ws].username = username,
                         !.conn[ws].currentRoom = ref]
    IN  IF r.threw
        THEN [W |-> W2, sent |-> <<>>, threw |-> TRUE]
        ELSE LET W3 == [W2 EXCEPT !.conn[ws].userInfo = r.clientInfo]
                 room == W3.heap[ref]
                 loadHistory ==
                    [type |-> "LOAD_HISTORY",
                     drawingHistory |-> stringifyOps(getDrawingHistory(room)),
                     operationHistory |->
                        stringifyAudits(getOperationHistory(room.drawingState)),
                     userInfo |-> r.clientInfo,
                     roomStats |-> getStats(room, t)]
                 userJoined ==
                    [type |-> "USER_JOINED", users |-> getActiveUsers(room),
                     clientCount |-> getClientCount(room)]
             IN  IF ws \in broken
                 THEN [W |-> W3, sent |-> <<send(ws, loadHistory, broken)>>,
                       threw |-> TRUE]
                 ELSE [W |-> W3,
                       sent |-> <<send(ws, loadHistory, broken)>>
                                \o broadcastAll(room, userJoined, W3.conn, broken),
                       threw |-> FALSE]

\* The object literal of handleDraw lists x1 twice (x1: data.x1, x1: data.y1) and
\* y1 never: the later x1 wins and the operation has no y1 key.
handleDraw(W, ws, data, t, broken) ==
    LET ref == W.conn[ws].currentRoom
    IN  IF ref = NoRoom \/ ~Truthy(W.conn[ws].userId)
        THEN [W |-> W, sent |-> <<>>, threw |-> FALSE]
        ELSE LET operation ==
                    [type |-> "DRAW", userId |-> W.conn[ws].userId,
                     x0 |-> Get(data, "x0"), y0 |-> Get(data, "y0"),
                     x1 |-> Get(data, "y1"),
                     color |-> Get(data, "color"), size |-> Get(data, "size"),
                     timestamp |-> Get(data, "timestamp"),
                     operationId |-> Get(data, "operationId")]
                 mint == validateOperation(operation) /\ ~Truthy(operation.operationId)
                 room == recordOperation(W.heap[ref], operation, uuidv4(W.nextUuid + 1), t)
                 message ==
                    [type |-> "DRAW", userId |-> W.conn[ws].userId,
                     x0 |-> Get(data, "x0"), y0 |-> Get(data, "y0"),
                     x1 |-> Get(data, "x1"), y1 |-> Get(data, "y1"),
                     color |-> Get(data, "color"), size |-> Get(data, "size"),
                     timestamp |-> Get(data, "timestamp"),
                     operationId |-> Get(data, "operationId")]
             IN  [W |-> [W EXCEPT !.heap[ref] = room,
                                  !.nextUuid = IF mint THEN @ + 1 ELSE @],
                  sent |-> broadcast(room, stringify(message), ws, W.conn, broken),
                  threw |-> FALSE]

handleErase(W, ws, data, t, broken) ==
    LET ref == W.conn[ws].currentRoom
    IN  IF ref = NoRoom \/ ~Truthy(W.conn[ws].userId)
        THEN [W |-> W, sent |-> <<>>, threw |-> FALSE]
        ELSE LET operation ==
                    [type |-> "ERASE", userId |-> W.conn[ws].userId,
                     x0 |-> Get(data, "x0"), y0 |-> Get(data, "y0"),
                     x1 |-> Get(data, "x1"), y1 |-> Get(data, "y1"),
                     size |-> Get(data, "size"),
                     timestamp |-> Get(data, "timestamp"),
                     operationId |-> Get(data, "operationId")]
                 mint == validateOperation(operation) /\ ~Truthy(operation.operationId)
                 room == recordOperation(W.heap[ref], operation, uuidv4(W.nextUuid + 1), t)
             IN  [W |-> [W EXCEPT !.heap[ref] = room,
                                  !.nextUuid = IF mint THEN @ + 1 ELSE @],
                  sent |-> broadcast(room, stringify(operation), ws, W.conn, broken),
                  threw |-> FALSE]

handleUndo(W, ws, data, t, broken) ==
    LET ref == W.conn[ws].currentRoom
    IN  IF ref = NoRoom
        THEN [W |-> W, sent |-> <<>>, threw |-> FALSE]
        ELSE LET r == recordUndo(W.heap[ref].drawingState, data, t)
                 room == [W.heap[ref] EXCEPT !.drawingState = r.ds]
                 message == [type |-> "UNDO", userId |-> W.conn[ws].userId,
                             operationId |-> Get(data, "operationId"),
                             timestamp |-> Get(data, "timestamp")]
             IN  [W |-> [W EXCEPT !.heap[ref] = room],
                  sent |-> IF r.ok THEN broadcastAll(room, stringify(message), W.conn, broken)
                           ELSE <<>>,
                  threw |-> FALSE]

\* mutant: a connection can only redo operations of its own
handleRedoOwn(W, ws, data, t, broken) ==
    LET ref == W.conn[ws].currentRoom
    IN  IF ref = NoRoom
        THEN [W |-> W, sent |-> <<>>, threw |-> FALSE]
        ELSE LET d == W.heap[ref].drawingState
                 own == Len(d.redoStack) > 0 /\ Last(d.redoStack).userId = W.conn[ws].userId
                 r == IF own THEN recordRedo(d, data, t) ELSE [ok |-> FALSE, ds |-> d]
                 room == [W.heap[ref] EXCEPT !.drawingState = r.ds]
                 message == [type |-> "REDO", userId |-> W.conn[ws].userId,
                             operationId |-> Get(data, "operationId"),
                             timestamp |-> Get(data, "timestamp")]
             IN  [W |-> [W EXCEPT !.heap[ref] = room],
                  sent |-> IF r.ok THEN broadcastAll(room, stringify(message), W.conn, broken)
                           ELSE <<>>,
                  threw |-> FALSE]

handleRedo(W, ws, data, t, broken) ==
    LET ref == W.conn[ws].currentRoom
    IN  IF ref = NoRoom
        THEN [W |-> W, sent |-> <<>>, threw |-> FALSE]
        ELSE LET r == recordRedo(W.heap[ref].drawingState, data, t)
                 room == [W.heap[ref] EXCEPT !.drawingState = r.ds]
                 message == [type |-> "REDO", userId |-> W.conn[ws].userId,
                             operationId |-> Get(data, "operationId"),
                             timestamp |-> Get(data, "timestamp")]
             IN  [W |-> [W EXCEPT !.heap[ref] = room],
                  sent |-> IF r.ok THEN broadcastAll(room, stringify(message), W.conn, broken)
                           ELSE <<>>,
                  threw |-> FALSE]

\* mutant: a connection that holds no room clears the default room
handleClearCanvasDefault(W, ws, data, t, broken) ==
    LET V == getOrCreateRoom(W, "default", t)
        ref == IF W.conn[ws].currentRoom = NoRoom THEN V.rooms["default"]
               ELSE W.conn[ws].currentRoom
        room == clearDrawing(V.heap[ref], t)
        message == [type |-> "CLEAR_CANVAS", userId |-> W.conn[ws].userId,
                    timestamp |-> Get(data, "timestamp")]
    IN  [W |-> [V EXCEPT !.heap[ref] = room],
         sent |-> broadcastAll(room, stringify(message), W.conn, broken),
         threw |-> FALSE]

handleClearCanvas(W, ws, data, t, broken) ==
    LET ref == W.conn[ws].currentRoom
    IN  IF ref = NoRoom
        THEN [W |-> W, sent |-> <<>>, threw |-> FALSE]
        ELSE LET room == clearDrawing(W.heap[ref], t)
                 message == [type |-> "CLEAR_CANVAS", userId |-> W.conn[ws].userId,
                             timestamp |-> Get(data, "timestamp")]
             IN  [W |-> [W EXCEPT !.heap[ref] = room],
                  sent |-> broadcastAll(room, stringify(message), W.conn, broken),
                  threw |-> FALSE]

\* mutant: the cursor position is recorded like a drawing operation
handleCursorMoveLogged(W, ws, data, t, broken) ==
    LET ref == W.conn[ws].currentRoom
    IN  IF ref = NoRoom
        THEN [W |-> W, sent |-> <<>>, threw |-> FALSE]
        ELSE LET message == [type |-> "CURSOR_MOVE", userId |-> W.conn[ws].userId,
                             x |-> Get(data, "x"), y |-> Get(data, "y")]
             IN  [W |-> [W EXCEPT !.heap[ref].drawingState.drawingHistory =
                                     Append(@, message)],
                  sent |-> broadcast(W.heap[ref], stringify(message), ws, W.conn, broken),
                  threw |-> FALSE]

handleCursorMove(W, ws, data, t, broken) ==
    LET ref == W.conn[ws].currentRoom
    IN  IF ref = NoRoom
        THEN [W |-> W, sent |-> <<>>, threw |-> FALSE]
        ELSE LET message == [type |-> "CURSOR_MOVE", userId |-> W.conn[ws].userId,
                             x |-> Get(data, "x"), y |-> Get(data, "y")]
             IN  [W |-> W,
                  sent |-> broadcast(W.heap[ref], stringify(message), ws, W.conn, broken),
                  threw |-> FALSE]

ErrorReply == [type |-> "ERROR", message |-> "Server failed to process your message"]

\* the switch of ws.on('message'); an unknown type is only logged
dispatch(W, ws, data, t, broken) ==
    LET type == Get(data, "type")
    IN  IF data = BadJson THEN [W |-> W, sent |-> <<>>, threw |-> TRUE]
        ELSE IF type = "JOIN_ROOM" THEN handleJoinRoom(W, ws, data, t, broken)
        ELSE IF type = "DRAW" THEN handleDraw(W, ws, data, t, broken)
        ELSE IF type = "ERASE" THEN handleErase(W, ws, data, t, broken)
        ELSE IF type = "UNDO" THEN handleUndo(W, ws, data, t, broken)
        ELSE IF type = "REDO" THEN handleRedo(W, ws, data, t, broken)
        ELSE IF type = "CLEAR_CANVAS" THEN handleClearCanvas(W, ws, data, t, broken)
        ELSE IF type = "CURSOR_MOVE" THEN handleCursorMove(W, ws, data, t, broken)
        ELSE [W |-> W, sent |-> <<>>, threw |-> FALSE]

\* mutant: the catch block only logs
onMessageSilent(W, ws, data, t, broken) == dispatch(W, ws, data, t, broken)

\* ws.on('message'): try { parse, dispatch } catch { try { ws.send(ERROR) } catch {} }
onMessage(W, ws, data, t, broken) ==
    LET r == dispatch(W, ws, data, t, broken)
    IN  IF r.threw
        THEN [r EXCEPT !.sent = Append(@, send(ws, ErrorReply, broken))]
        ELSE r

\* ws.on('close'): the socket is no longer open when the handler runs
onClose(W, ws, broken) ==
    LET W0 == [W EXCEPT !.conn[ws].state = "closed"]
        ref == W.conn[ws].currentRoom
    IN  IF ref = NoRoom
        THEN [W |-> W0, sent |-> <<>>, threw |-> FALSE]
        ELSE LET room == removeClient(W0.heap[ref], ws).room
                 W1 == [W0 EXCEPT !.heap[ref] = room]
                 userLeft == [type |-> "USER_LEFT", users |-> getActiveUsers(room),
                              clientCount |-> getClientCount(room)]
             IN  IF ~isEmpty(room)
                 THEN [W |-> W1, sent |-> broadcastAll(room, userLeft, W1.conn, broken),
                       threw |-> FALSE]
                 ELSE [W |-> deleteRoom(W1, room.id), sent |-> <<>>, threw |-> FALSE]

\* ------------------------------------------------------------- the client
\* the browser tabs that run the client
Clients == {"a", "b"}

maxReconnectAttempts == 5

\* what emit(eventType, data) dispatched last
Emitted(type, data) == [type |-> type, data |-> data]

\* a tab before startApp: no socket, no canvas
newApp ==
    [ phase             |-> "login",   \* startApp: login, connecting, running, failed
      socket            |-> "none",    \* readyState of this.ws: none, connecting, open, closed
      ws                |-> NoWs,      \* the server's end of this.ws
      isConnected       |-> FALSE,
      reconnectAttempts |-> 0,
      timer             |-> FALSE,     \* a reconnect setTimeout is pending
      emitted           |-> Emitted("none", Undefined),
      currentRoom       |-> Null,
      username          |-> Null,
      userId            |-> Null,      \* DrawingApp.userId
      canvas            |-> <<>>,      \* the strokes on the canvas, oldest first
      drawingStates     |-> <<>>,      \* snapshots of the canvas
      currentStateIndex |-> -1,
      sentOps           |-> 0,         \* number of operation ids generated
      reopened          |-> FALSE ]    \* this.ws was created by a reconnect timer

\* mutant: the index moves forward also when the oldest snapshot is dropped
saveStateCounted(a) ==
    LET kept == IF a.currentStateIndex < Len(a.drawingStates) - 1
                THEN SubSeq(a.drawingStates, 1, a.currentStateIndex + 1)
                ELSE a.drawingStates
    IN  IF Len(kept) >= maxHistoryStates
        THEN [a EXCEPT !.drawingStates = Append(Tail(kept), a.canvas),
                       !.currentStateIndex = @ + 1]
        ELSE [a EXCEPT !.drawingStates = Append(kept, a.canvas),
                       !.currentStateIndex = @ + 1]

\* CanvasManager.saveState()
saveState(a) ==
    LET kept == IF a.currentStateIndex < Len(a.drawingStates) - 1
                THEN SubSeq(a.drawingStates, 1, a.currentStateIndex + 1)
                ELSE a.drawingStates
    IN  IF Len(kept) >= maxHistoryStates
        THEN [a EXCEPT !.drawingStates = Append(Tail(kept), a.canvas)]
        ELSE [a EXCEPT !.drawingStates = Append(kept, a.canvas),
                       !.currentStateIndex = @ + 1]

\* CanvasManager.undo(): [app, stateIndex]
undo(a) ==
    IF a.currentStateIndex > 0
    THEN [app |-> [a EXCEPT !.currentStateIndex = @ - 1,
                            !.canvas = a.drawingStates[a.currentStateIndex]],
          stateIndex |-> a.currentStateIndex - 1]
    ELSE [app |-> a, stateIndex |-> -1]

\* CanvasManager.redo(): [app, stateIndex]
redo(a) ==
    IF a.currentStateIndex < Len(a.drawingStates) - 1
    THEN [app |-> [a EXCEPT !.currentStateIndex = @ + 1,
                            !.canvas = a.drawingStates[a.currentStateIndex + 2]],
          stateIndex |-> a.currentStateIndex + 1]
    ELSE [app |-> a, stateIndex |-> -1]

\* CanvasManager.clearCanvas()
clearCanvas(a) ==
    saveState([a EXCEPT !.canvas = <<>>, !.drawingStates = <<>>,
                        !.currentStateIndex = -1])

\* what remoteDrawBrush / remoteErase leave on the canvas
Stroke(op) == [type |-> op.type, x0 |-> Get(op, "x0"), y0 |-> Get(op, "y0"),
               x1 |-> Get(op, "x1"), y1 |-> Get(op, "y1")]

\* CanvasManager.loadDrawingHistory(drawingHistory)
loadDrawingHistory(a, drawingHistory) ==
    LET drawn == SelectSeq(drawingHistory, LAMBDA op : op.type \in {"DRAW", "ERASE"})
        canvas == [i \in 1..Len(drawn) |-> Stroke(drawn[i])]
    IN  [a EXCEPT !.canvas = canvas, !.drawingStates = <<canvas>>,
                  !.currentStateIndex = 0]

\* WebSocketManager.connect(): a new WebSocket, not yet open
connect(a) == [a EXCEPT !.socket = "connecting", !.ws = NoWs]

\* ws.onopen
onopen(a, ws) ==
    [a EXCEPT !.socket = "open", !.ws = ws, !.isConnected = TRUE,
              !.reconnectAttempts = 0, !.emitted = Emitted("CONNECTED", Undefined)]

\* ws.onerror
onerror(a) ==
    [a EXCEPT !.isConnected = FALSE,
              !.emitted = Emitted("CONNECTION_FAILED", Undefined)]

\* mutant: a reconnection is attempted whatever the counter says
attemptReconnectAlways(a) ==
    [a EXCEPT !.reconnectAttempts = @ + 1, !.timer = TRUE,
              !.emitted = Emitted("RECONNECTING", a.reconnectAttempts + 1)]

\* WebSocketManager.attemptReconnect()
attemptReconnect(a) ==
    IF a.reconnectAttempts < maxReconnectAttempts
    THEN [a EXCEPT !.reconnectAttempts = @ + 1, !.timer = TRUE,
                   !.emitted = Emitted("RECONNECTING", a.reconnectAttempts + 1)]
    ELSE [a EXCEPT !.emitted = Emitted("CONNECTION_FAILED",
                                       "Max reconnection attempts reached")]

\* ws.onclose
onclose(a) ==
    attemptReconnect([a EXCEPT !.socket = "closed", !.isConnected = FALSE,
                               !.emitted = Emitted("DISCONNECTED", Undefined)])

\* the callback of the setTimeout of attemptReconnect: connect()
reconnect(a) == connect([a EXCEPT !.timer = FALSE, !.reopened = TRUE])

\* WebSocketManager.send(data) puts data on the wire only on an open socket
canSend(a) == a.isConnected /\ a.socket = "open"

\* WebSocketManager.generateOperationId(): the n-th id of tab c
generateOperationId(c, n) == "op-" \o c \o ToString(n)

\* DrawingApp.startApp up to `await this.ws.connect()`
startApp(a, username) ==
    connect(saveState([a EXCEPT !.phase = "connecting", !.username = username]))

\* WebSocketManager.handleMessage(data) with the listeners of
\* setupWebSocketListeners.  The UNDO and REDO listeners call canvas.remoteUndo()
\* and canvas.remoteRedo(); CanvasManager has no such methods, the TypeError is
\* caught by handleMessage and the canvas stays as it is.  A type without a
\* listener is emitted.
handleMessage(a, data) ==
    IF a.phase # "running" THEN [a EXCEPT !.emitted = Emitted(data.type, data)]
    ELSE IF data.type = "LOAD_HISTORY"
    THEN [loadDrawingHistory(a, data.drawingHistory)
            EXCEPT !.userId = data.userInfo.userId]
    ELSE IF data.type \in {"DRAW", "ERASE"}
    THEN IF data.userId # a.userId
         THEN [a EXCEPT !.canvas = Append(@, Stroke(data))] ELSE a
    ELSE IF data.type = "CLEAR_CANVAS"
    THEN IF data.userId # a.userId
         THEN saveState([a EXCEPT !.canvas = <<>>, !.drawingStates = <<>>,
                                  !.currentStateIndex = -1])
         ELSE a
    ELSE IF data.type \in {"UNDO", "REDO", "USER_JOINED", "USER_LEFT", "CURSOR_MOVE"}
    THEN a
    ELSE [a EXCEPT !.emitted = Emitted(data.type, data)]

ClientInit == apps = [c \in Clients |-> newApp]

\* ------------------------------------------------------------ initial state
\* wss.on('connection') has not run for any connection; no room exists
NoConn ==
    [state |-> "none", userId |-> Undefined, username |-> Undefined,
     currentRoom |-> NoRoom, userInfo |-> NullObj]

NoEvent == [kind |-> "none", ws |-> NoWs, data |-> [type |-> "none"], threw |-> FALSE,
            broken |-> {}, undoer |-> NoWs,
            pre |-> [rooms |-> [r \in RoomIds |-> NoRoom], heap |-> <<>>,
                     conn |-> [c \in ConnSet |-> NoConn], nextUuid |-> 0]]

ServerInit ==
    /\ rooms = [r \in RoomIds |-> NoRoom]
    /\ heap = <<>>
    /\ conn = [c \in ConnSet |-> NoConn]
    /\ sent = <<>>
    /\ last = NoEvent
    /\ nevents = 0

\* ------------------------------------------- LogSpec: one DrawingState alone
\* Operations a caller may hand to addOperation.

DrawOp(u, id) ==
    [type |-> "DRAW", userId |-> u, x0 |-> "0", y0 |-> "0", x1 |-> "5", y1 |-> "7",
     color |-> "#000", size |-> "3", timestamp |-> "t1", operationId |-> id]

EraseOp(u, id) ==
    [type |-> "ERASE", userId |-> u, x0 |-> "1", y0 |-> "1", x1 |-> "2", y1 |-> "2",
     size |-> "9", timestamp |-> "t2", operationId |-> id]

LogOps ==
    { DrawOp("U1", "o1"), EraseOp("U2", "o2"),
      [type |-> "ERASE", userId |-> "U2", x0 |-> "1", y0 |-> "1", x1 |-> "2",
       y1 |-> "2", size |-> "9", timestamp |-> "t2"],                \* no operationId
      [type |-> "CLEAR_CANVAS", userId |-> "U1", timestamp |-> "t3",
       operationId |-> "o4"],
      [type |-> "DRAW", userId |-> "U1", x0 |-> "0", y0 |-> "0", x1 |-> "5",
       y1 |-> "7", size |-> "3", timestamp |-> "t1", operationId |-> "o5"], \* no color
      [type |-> "FILL", userId |-> "U1", timestamp |-> "t1", operationId |-> "o6"],
      [type |-> "ERASE", userId |-> "U2", x0 |-> "1", y0 |-> "1", x1 |-> "2",
       y1 |-> "2", timestamp |-> "t2", operationId |-> "o7"],            \* no size
      [type |-> "DRAW", userId |-> "U1", x0 |-> "0", y0 |-> "0", x1 |-> "7",
       color |-> "#000", size |-> "3", timestamp |-> "t1",
       operationId |-> "o8"] }                                           \* no y1

LogIds == {"o1", "o2", "o4", uuidv4(1)}

UndoReqs == { [type |-> "UNDO", operationId |-> i] : i \in LogIds } \cup { [type |-> "UNDO"] }

RedoReq == [type |-> "REDO"]

NoCall == [op |-> "none", arg |-> [type |-> "none"], ok |-> TRUE, pre |-> newDrawingState(0)]

LogInit ==
    /\ ds = newDrawingState(0)
    /\ call = NoCall
    /\ now = 0
    /\ nextUuid = 0
    /\ ncalls = 0
    /\ ServerInit
    /\ ClientInit

\* every step of LogSpec counts against MaxCalls
Step == ncalls < MaxCalls /\ ncalls' = ncalls + 1

LogAdd ==
    \E operation \in LogOps :
        LET mint == validateOperation(operation) /\ ~Truthy(Get(operation, "operationId"))
            r == addOperation(ds, operation, uuidv4(nextUuid + 1), now)
        IN  /\ Step
            /\ ds' = r.ds
            /\ call' = [op |-> "addOperation", arg |-> operation, ok |-> r.ok, pre |-> ds]
            /\ nextUuid' = IF mint THEN nextUuid + 1 ELSE nextUuid
            /\ UNCHANGED <<now, serverVars, apps>>

LogUndo ==
    \E undoOp \in UndoReqs :
        LET r == recordUndo(ds, undoOp, now)
        IN  /\ Step
            /\ ds' = r.ds
            /\ call' = [op |-> "recordUndo", arg |-> undoOp, ok |-> r.ok, pre |-> ds]
            /\ UNCHANGED <<now, nextUuid, serverVars, apps>>

LogRedo ==
    LET r == recordRedo(ds, RedoReq, now)
    IN  /\ Step
        /\ ds' = r.ds
        /\ call' = [op |-> "recordRedo", arg |-> RedoReq, ok |-> r.ok, pre |-> ds]
        /\ UNCHANGED <<now, nextUuid, serverVars, apps>>

LogClear ==
    /\ Step
    /\ ds' = clear(ds)
    /\ call' = [op |-> "clear", arg |-> [type |-> "none"], ok |-> TRUE, pre |-> ds]
    /\ UNCHANGED <<now, nextUuid, serverVars, apps>>

LogTick ==
    /\ Step
    /\ now' = now + 1
    /\ UNCHANGED <<ds, call, nextUuid, serverVars, apps>>

LogNext == LogAdd \/ LogUndo \/ LogRedo \/ LogClear \/ LogTick

LogSpec == LogInit /\ [][LogNext]_vars

\* ------------------------------------------------ Spec: the running server
World == [rooms |-> rooms, heap |-> heap, conn |-> conn, nextUuid |-> nextUuid]

Well == [x0 |-> "0", y0 |-> "0", x1 |-> "5", y1 |-> "7", color |-> "#000",
         size |-> "3", timestamp |-> "t1"]

\* the messages a client may send
Messages ==
    { [type |-> "JOIN_ROOM", roomId |-> "r1", username |-> "alice"],
      [type |-> "JOIN_ROOM"],
      [type |-> "DRAW", operationId |-> "o1"] @@ Well,
      [type |-> "ERASE", x0 |-> "1", y0 |-> "1", x1 |-> "2", y1 |-> "2",
       size |-> "9", timestamp |-> "t2", operationId |-> "o2"],
      [type |-> "ERASE", x0 |-> "1", y0 |-> "1", x1 |-> "2", y1 |-> "2",
       size |-> "9", timestamp |-> "t2"],
      [type |-> "ERASE", x0 |-> "1", y0 |-> "1", x1 |-> "2", y1 |-> "2",
       timestamp |-> "t2", operationId |-> "o3"],
      [type |-> "UNDO", operationId |-> "o1", timestamp |-> "t3"],
      [type |-> "UNDO", operationId |-> "o2", timestamp |-> "t3"],
      [type |-> "REDO", timestamp |-> "t4"],
      [type |-> "CLEAR_CANVAS", timestamp |-> "t5"],
      [type |-> "CURSOR_MOVE", x |-> "3", y |-> "4"],
      [type |-> "PING"],
      BadJson }

\* Math.random() in the default username
RandomNames == {"User-42"}

Event == nevents < MaxEvents /\ nevents' = nevents + 1

\* the connections whose send may throw while one event is handled: none, or one
\* of the open ones
SendFailures == {{}} \cup {{c} : c \in {c \in ConnSet : conn[c].state = "open"}}

\* the event is an Undo message that removes an operation from a history
Undoes(kind, ws, data, r) ==
    /\ kind = "message"
    /\ data # BadJson
    /\ Get(data, "type") = "UNDO"
    /\ conn[ws].currentRoom # NoRoom
    /\ r.W.heap[conn[ws].currentRoom].drawingState.redoStack
          # heap[conn[ws].currentRoom].drawingState.redoStack

\* the server state and the record of the event after a handler ran on state pre
ApplyFrom(pre, kind, ws, data, r) ==
    /\ rooms' = r.W.rooms
    /\ heap' = r.W.heap
    /\ conn' = r.W.conn
    /\ nextUuid' = r.W.nextUuid
    /\ sent' = r.sent
    /\ last' = [kind |-> kind, ws |-> ws, data |-> data, threw |-> r.threw,
                broken |-> r.broken, pre |-> pre,
                undoer |-> IF Undoes(kind, ws, data, r) THEN ws ELSE last.undoer]

Apply(kind, ws, data, r) == ApplyFrom(World, kind, ws, data, r)

\* wss.on('connection'): connections open in the order of Conns
Connection ==
    \E i \in 1..Len(Conns), name \in RandomNames :
        /\ Event
        /\ conn[Conns[i]].state = "none"
        /\ \A j \in 1..(i - 1) : conn[Conns[j]].state # "none"
        /\ Apply("connection", Conns[i], [type |-> "none"],
                 [W |-> [World EXCEPT
                            !.conn[Conns[i]] = [state |-> "open",
                                                userId |-> uuidv4(nextUuid + 1),
                                                username |-> name,
                                                currentRoom |-> NoRoom,
                                                userInfo |-> NullObj],
                            !.nextUuid = @ + 1],
                  sent |-> <<>>, threw |-> FALSE, broken |-> {}])
        /\ UNCHANGED <<now, logVars, apps>>

Message ==
    \E ws \in ConnSet, data \in Messages, broken \in SendFailures :
        /\ Event
        /\ conn[ws].state = "open"
        /\ Apply("message", ws, data,
                 onMessage(World, ws, data, now, broken) @@ [broken |-> broken])
        /\ UNCHANGED <<now, logVars, apps>>

Close ==
    \E ws \in ConnSet, broken \in SendFailures :
        /\ Event
        /\ conn[ws].state = "open"
        /\ ws \notin broken
        /\ Apply("close", ws, [type |-> "none"],
                 onClose(World, ws, broken) @@ [broken |-> broken])
        /\ UNCHANGED <<now, logVars, apps>>

Tick ==
    /\ Event
    /\ now' = now + 1
    /\ Apply("tick", NoWs, [type |-> "none"],
             [W |-> World, sent |-> <<>>, threw |-> FALSE, broken |-> {}])
    /\ UNCHANGED <<logVars, apps>>

\* the cleanup interval fires (every 60 s, far below the clock's unit)
Sweep ==
    /\ Event
    /\ Apply("sweep", NoWs, [type |-> "none"],
             [W |-> roomCleanup(World, now), sent |-> <<>>, threw |-> FALSE,
              broken |-> {}])
    /\ UNCHANGED <<now, logVars, apps>>

Init ==
    /\ ServerInit
    /\ ClientInit
    /\ ds = newDrawingState(0)
    /\ call = NoCall
    /\ ncalls = 0
    /\ now = 0
    /\ nextUuid = 0

Next == Connection \/ Message \/ Close \/ Tick \/ Sweep

Spec == Init /\ [][Next]_vars

\* --------------------- EditSpec: longer sessions of the server, every send succeeds
\* the messages of an editing session
EditMessages ==
    {m \in Messages \ {BadJson} :
        m.type \in {"JOIN_ROOM", "DRAW", "ERASE", "UNDO", "REDO", "CLEAR_CANVAS"}}

Edit == nevents < MaxEdits /\ nevents' = nevents + 1

\* wss.on('connection')
EditConnection ==
    \E i \in 1..Len(Conns), name \in RandomNames :
        /\ Edit
        /\ conn[Conns[i]].state = "none"
        /\ \A j \in 1..(i - 1) : conn[Conns[j]].state # "none"
        /\ Apply("connection", Conns[i], [type |-> "none"],
                 [W |-> [World EXCEPT
                            !.conn[Conns[i]] = [state |-> "open",
                                                userId |-> uuidv4(nextUuid + 1),
                                                username |-> name,
                                                currentRoom |-> NoRoom,
                                                userInfo |-> NullObj],
                            !.nextUuid = @ + 1],
                  sent |-> <<>>, threw |-> FALSE, broken |-> {}])
        /\ UNCHANGED <<now, logVars, apps>>

\* ws.on('message')
EditMessage ==
    \E ws \in ConnSet, data \in EditMessages :
        /\ Edit
        /\ conn[ws].state = "open"
        /\ Apply("message", ws, data,
                 onMessage(World, ws, data, now, {}) @@ [broken |-> {}])
        /\ UNCHANGED <<now, logVars, apps>>

EditNext == EditConnection \/ EditMessage

EditSpec == Init /\ [][EditNext]_vars

\* ------------------ ReconnectSpec: the WebSocketManager of each tab, any server
\* a tab opens the page and submits the login form
RStart ==
    \E c \in Clients :
        /\ apps[c].phase = "login"
        /\ apps' = [apps EXCEPT ![c] = startApp(@, "alice")]
        /\ UNCHANGED <<now, nextUuid, logVars, serverVars>>

\* DrawingApp.startApp after `await this.ws.connect()`: the listeners are set
\* up and joinRoom stores the room and sends JOIN_ROOM
joinRoom(a, roomId) == [a EXCEPT !.phase = "running", !.currentRoom = roomId]

\* the tab after its socket opened as the server's connection ws: onopen, and
\* for the first socket the rest of startApp
opened(a, ws) ==
    IF a.phase = "connecting" THEN joinRoom(onopen(a, ws), "r1") ELSE onopen(a, ws)

\* the tab after its connecting socket failed: onerror rejects the promise of
\* connect(), which ends startApp, then onclose
failed(a) ==
    onclose(onerror([a EXCEPT !.phase = IF @ = "connecting" THEN "failed" ELSE @]))

\* the socket opens
ROpen ==
    \E c \in Clients :
        /\ apps[c].socket = "connecting"
        /\ apps' = [apps EXCEPT ![c] = opened(@, NoWs)]
        /\ UNCHANGED <<now, nextUuid, logVars, serverVars>>

\* the server cannot be reached: error, then close
RFail ==
    \E c \in Clients :
        /\ apps[c].socket = "connecting"
        /\ apps[c].reconnectAttempts < RetryCap
        /\ apps' = [apps EXCEPT ![c] = failed(@)]
        /\ UNCHANGED <<now, nextUuid, logVars, serverVars>>

\* an open connection drops
RLost ==
    \E c \in Clients :
        /\ apps[c].socket = "open"
        /\ apps' = [apps EXCEPT ![c] = onclose(@)]
        /\ UNCHANGED <<now, nextUuid, logVars, serverVars>>

\* the reconnect timer fires
RTimer ==
    \E c \in Clients :
        /\ apps[c].timer
        /\ apps' = [apps EXCEPT ![c] = reconnect(@)]
        /\ UNCHANGED <<now, nextUuid, logVars, serverVars>>

ReconnectNext == RStart \/ ROpen \/ RFail \/ RLost \/ RTimer

ReconnectSpec == Init /\ [][ReconnectNext]_vars

\* ----------------------- SessionSpec: the tabs and the server, a reliable network
\* A message is handled by its receiver in the step that sends it.
SessionStep == nevents < MaxSteps /\ nevents' = nevents + 1

\* wss.on('connection') for connection ws
onConnection(W, ws, name) ==
    [W EXCEPT !.conn[ws] = [state |-> "open", userId |-> uuidv4(W.nextUuid + 1),
                            username |-> name, currentRoom |-> NoRoom,
                            userInfo |-> NullObj],
              !.nextUuid = @ + 1]

\* the connections not opened yet
Unopened == {i \in 1..Len(Conns) : conn[Conns[i]].state = "none"}

\* the connection the server opens next
NextWs == Conns[CHOOSE i \in Unopened : \A j \in Unopened : i <= j]

\* the tabs after the messages msgs (send attempts of the server) arrived
RECURSIVE deliver(_, _)
deliver(A, msgs) ==
    IF msgs = <<>> THEN A
    ELSE LET m == Head(msgs)
             tabs == {c \in Clients : A[c].ws = m.to /\ A[c].socket = "open"}
         IN  deliver(IF m.ok /\ tabs # {}
                     THEN [A EXCEPT ![CHOOSE c \in tabs : TRUE] = handleMessage(@, m.msg)]
                     ELSE A,
                     Tail(msgs))

\* tab c sends data and the server handles it: the tabs become A, then the
\* replies arrive.  Nothing leaves a tab whose socket is not open.
Exchange(c, A, data) ==
    IF canSend(apps[c])
    THEN LET r == onMessage(World, apps[c].ws, data, now, {})
         IN  /\ Apply("message", apps[c].ws, data, r @@ [broken |-> {}])
             /\ apps' = deliver(A, r.sent)
    ELSE /\ apps' = A
         /\ UNCHANGED <<rooms, heap, conn, nextUuid, sent, last>>

SStart ==
    \E c \in Clients :
        /\ SessionStep
        /\ apps[c].phase = "login"
        /\ apps' = [apps EXCEPT ![c] = startApp(@, "alice")]
        /\ UNCHANGED <<now, nextUuid, logVars, rooms, heap, conn, sent, last>>

\* the server accepts the socket of tab c; the first socket of a tab sends
\* JOIN_ROOM at once (startApp), a later one sends nothing (attemptReconnect)
SOpen ==
    \E c \in Clients, name \in RandomNames :
        /\ SessionStep
        /\ apps[c].socket = "connecting"
        /\ Unopened # {}
        /\ LET ws == NextWs
               W1 == onConnection(World, ws, name)
               a == opened(apps[c], ws)
               join == [type |-> "JOIN_ROOM", roomId |-> a.currentRoom,
                        username |-> a.username]
               r == onMessage(W1, ws, join, now, {})
           IN  IF apps[c].phase = "connecting"
               THEN /\ ApplyFrom(W1, "message", ws, join, r @@ [broken |-> {}])
                    /\ apps' = deliver([apps EXCEPT ![c] = a], r.sent)
               ELSE /\ Apply("connection", ws, [type |-> "none"],
                             [W |-> W1, sent |-> <<>>, threw |-> FALSE, broken |-> {}])
                    /\ apps' = [apps EXCEPT ![c] = a]
        /\ UNCHANGED <<now, logVars>>

\* the server cannot be reached
SFail ==
    \E c \in Clients :
        /\ SessionStep
        /\ apps[c].socket = "connecting"
        /\ apps' = [apps EXCEPT ![c] = failed(@)]
        /\ UNCHANGED <<now, nextUuid, logVars, rooms, heap, conn, sent, last>>

\* the connection of tab c drops: ws.on('close') in the server, onclose in the tab
SLost ==
    \E c \in Clients :
        /\ SessionStep
        /\ apps[c].socket = "open"
        /\ LET r == onClose(World, apps[c].ws, {})
           IN  /\ Apply("close", apps[c].ws, [type |-> "none"], r @@ [broken |-> {}])
               /\ apps' = deliver([apps EXCEPT ![c] = onclose(@)], r.sent)
        /\ UNCHANGED <<now, logVars>>

STimer ==
    \E c \in Clients :
        /\ SessionStep
        /\ apps[c].timer
        /\ apps' = [apps EXCEPT ![c] = reconnect(@)]
        /\ UNCHANGED <<now, nextUuid, logVars, rooms, heap, conn, sent, last>>

\* the message sendDraw / sendErase builds for a stroke from (0,0) to (5,7)
StrokeMessage(c, a, tool) ==
    LET operationId == generateOperationId(c, a.sentOps + 1)
    IN  IF tool = "brush"
        THEN [type |-> "DRAW", userId |-> a.userId, x0 |-> "0", y0 |-> "0",
              x1 |-> "5", y1 |-> "7", color |-> "#000000", size |-> "3",
              timestamp |-> ToString(now), operationId |-> operationId]
        ELSE [type |-> "ERASE", userId |-> a.userId, x0 |-> "0", y0 |-> "0",
              x1 |-> "5", y1 |-> "7", size |-> "20",
              timestamp |-> ToString(now), operationId |-> operationId]

\* the user of tab c draws a stroke of one segment: mousedown, mousemove
\* (drawBrush or eraseStroke as interceptCanvasDrawing wraps them), mouseup
SDraw ==
    \E c \in Clients, tool \in {"brush", "eraser"} :
        /\ SessionStep
        /\ apps[c].phase = "running"
        /\ LET a == apps[c]
               data == StrokeMessage(c, a, tool)
               drawn == [a EXCEPT !.canvas = Append(@, Stroke(data))]
           IN  IF Truthy(a.userId)
               THEN Exchange(c, [apps EXCEPT ![c] =
                                    saveState([drawn EXCEPT !.sentOps = @ + 1])], data)
               ELSE /\ apps' = [apps EXCEPT ![c] = saveState(drawn)]
                    /\ UNCHANGED <<rooms, heap, conn, nextUuid, sent, last>>
        /\ UNCHANGED <<now, logVars>>

\* the undo button or Ctrl+Z
SUndo ==
    \E c \in Clients :
        /\ SessionStep
        /\ apps[c].phase = "running"
        /\ undo(apps[c]).stateIndex >= 0
        /\ Exchange(c, [apps EXCEPT ![c] = undo(apps[c]).app],
                    [type |-> "UNDO", userId |-> apps[c].userId,
                     operationId |-> ToString(undo(apps[c]).stateIndex),
                     timestamp |-> ToString(now)])
        /\ UNCHANGED <<now, logVars>>

\* the redo button or Ctrl+Shift+Z
SRedo ==
    \E c \in Clients :
        /\ SessionStep
        /\ apps[c].phase = "running"
        /\ redo(apps[c]).stateIndex >= 0
        /\ Exchange(c, [apps EXCEPT ![c] = redo(apps[c]).app],
                    [type |-> "REDO", userId |-> apps[c].userId,
                     operationId |-> ToString(redo(apps[c]).stateIndex),
                     timestamp |-> ToString(now)])
        /\ UNCHANGED <<now, logVars>>

SessionNext == SStart \/ SOpen \/ SFail \/ SLost \/ STimer \/ SDraw \/ SUndo \/ SRedo

SessionSpec == Init /\ [][SessionNext]_vars

\* ------------------------------------------------------------- CanvasSpec
\* One tab's CanvasManager alone: the calls that write its snapshot stack.  The
\* tab's record in call.pre is the one the last call was made on.
CanvasTab == "a"

\* new CanvasManager(canvasElement): the constructor ends with saveState()
newCanvasManager == saveState(newApp)

CanvasInit ==
    /\ ServerInit
    /\ ds = newDrawingState(0)
    /\ now = 0
    /\ nextUuid = 0
    /\ ncalls = 0
    /\ apps = [c \in Clients |-> IF c = CanvasTab THEN newCanvasManager ELSE newApp]
    /\ call = [op |-> "constructor", arg |-> [type |-> "none"], ok |-> TRUE,
               pre |-> newApp]

\* every step of CanvasSpec counts against MaxSnaps
Snap(op, pre, post, ok) ==
    /\ ncalls < MaxSnaps
    /\ ncalls' = ncalls + 1
    /\ apps' = [apps EXCEPT ![CanvasTab] = post]
    /\ call' = [op |-> op, arg |-> [type |-> "none"], ok |-> ok, pre |-> pre]
    /\ UNCHANGED <<ds, now, nextUuid, serverVars>>

\* a stroke of one segment and handleMouseUp (or handleTouchEnd): saveState()
CDraw ==
    \E tool \in {"DRAW", "ERASE"} :
        LET drawn == [apps[CanvasTab] EXCEPT
                        !.canvas = Append(@, Stroke([type |-> tool, x0 |-> "0",
                                   y0 |-> "0", x1 |-> "5", y1 |-> "7"]))]
        IN  Snap("saveState", drawn, saveState(drawn), TRUE)

CUndo ==
    LET r == undo(apps[CanvasTab])
    IN  Snap("undo", apps[CanvasTab], r.app, r.stateIndex >= 0)

CRedo ==
    LET r == redo(apps[CanvasTab])
    IN  Snap("redo", apps[CanvasTab], r.app, r.stateIndex >= 0)

CClear == Snap("clearCanvas", apps[CanvasTab], clearCanvas(apps[CanvasTab]), TRUE)

\* a LOAD_HISTORY arrives with an empty history or with one of two operations
CLoad ==
    \E drawingHistory \in {<<>>, <<DrawOp("u1", "o1"), EraseOp("u2", "o2")>>} :
        Snap("loadDrawingHistory", apps[CanvasTab],
             loadDrawingHistory(apps[CanvasTab], drawingHistory), TRUE)

CanvasNext == CDraw \/ CUndo \/ CRedo \/ CClear \/ CLoad

CanvasSpec == CanvasInit /\ [][CanvasNext]_vars

\* ------------------------------------------------------ claims on the server
\* the last event was a message of one of these types from a connection whose
\* JOIN_ROOM had been processed before (its handler holds a room)
JoinedSent(types) ==
    /\ last.kind = "message"
    /\ Get(last.data, "type") \in types
    /\ last.pre.conn[last.ws].currentRoom # NoRoom

\* the room object the sender's handler holds, after the event
SenderRoom == heap[conn[last.ws].currentRoom]

SenderHistory == SenderRoom.drawingState.drawingHistory

\* the other open connections whose JOIN_ROOM put them in the sender's room
OtherParticipants ==
    {c \in ConnSet \ {last.ws} :
        conn[c].state = "open" /\ conn[c].currentRoom = conn[last.ws].currentRoom}

Delivered(c, type) ==
    \E i \in 1..Len(sent) : sent[i].to = c /\ sent[i].msg.type = type /\ sent[i].ok

WellFormedDraw(data) ==
    {"x0", "y0", "x1", "y1", "color", "size", "timestamp", "operationId"} \subseteq DOMAIN data

\* C6: after a joined participant's well-formed Draw the room's history ends
\* with an operation whose id is the message's opId and whose geometry and
\* style are the message's.
C6_DrawAppended ==
    (JoinedSent({"DRAW"}) /\ WellFormedDraw(last.data))
    => /\ Len(SenderHistory) > 0
       /\ Last(SenderHistory).id = last.data.operationId
       /\ \A k \in {"x0", "y0", "x1", "y1", "color", "size"} :
             Get(Last(SenderHistory), k) = last.data[k]

\* the room a JOIN_ROOM names
JoinTarget == IF Truthy(Get(last.data, "roomId")) THEN last.data.roomId ELSE "default"

JoinProcessed == last.kind = "message" /\ Get(last.data, "type") = "JOIN_ROOM"

\* C7: after a JoinRoom the sender is in the target room's participant set with
\* its id and a palette color, and the room's activity timestamp is the time of
\* the join.
C7_JoinRegisters ==
    JoinProcessed
    => /\ rooms[JoinTarget] # NoRoom
       /\ mapHas(heap[rooms[JoinTarget]].clients, last.ws)
       /\ mapGet(heap[rooms[JoinTarget]].clients, last.ws).userId = conn[last.ws].userId
       /\ mapGet(heap[rooms[JoinTarget]].clients, last.ws).color
             \in {USER_COLORS[i] : i \in 1..Len(USER_COLORS)}
       /\ heap[rooms[JoinTarget]].lastActivityAt = now

LoadHistories == SelectSeq(sent, LAMBDA m : m.msg.type = "LOAD_HISTORY")

\* C8: a JoinRoom is answered with exactly one LoadHistory, sent to the joiner,
\* listing the target room's history in order and carrying the joiner's identity.
C8_CatchUp ==
    JoinProcessed
    => /\ Len(LoadHistories) = 1
       /\ LoadHistories[1].to = last.ws
       /\ LoadHistories[1].msg.drawingHistory =
             stringifyOps(getDrawingHistory(heap[rooms[JoinTarget]]))
       /\ LoadHistories[1].msg.userInfo.userId = conn[last.ws].userId

\* C9: a Draw or Erase of a participant is delivered to every other open
\* participant of its room and never back to the sender.
C9_BroadcastExclusion ==
    JoinedSent({"DRAW", "ERASE"})
    => /\ \A c \in OtherParticipants \ last.broken : Delivered(c, last.data.type)
       /\ ~Delivered(last.ws, last.data.type)

UndoRedoSucceeded ==
    Len(SenderRoom.drawingState.operationHistory)
        = Len(last.pre.heap[last.pre.conn[last.ws].currentRoom].drawingState.operationHistory) + 1

\* C10: a successful Undo, a successful Redo and every ClearAll of a participant
\* is delivered to all participants of its room, the sender included.
C10_IncludeSender ==
    (\/ JoinedSent({"UNDO", "REDO"}) /\ UndoRedoSucceeded
     \/ JoinedSent({"CLEAR_CANVAS"}))
    => \A c \in (OtherParticipants \cup {last.ws}) \ last.broken :
          Delivered(c, last.data.type)

\* the last event made a broadcast to the sender's room
Broadcasting ==
    \/ JoinedSent({"DRAW", "ERASE", "CLEAR_CANVAS", "CURSOR_MOVE"})
    \/ JoinedSent({"UNDO", "REDO"}) /\ UndoRedoSucceeded

\* the connections that broadcast is to reach: the open participants of the
\* sender's room, without the sender where the handler excludes it
Recipients ==
    IF last.data.type \in {"DRAW", "ERASE", "CURSOR_MOVE"}
    THEN OtherParticipants ELSE OtherParticipants \cup {last.ws}

\* a participant of the sender's room whose send throws or whose socket is closed
FailingParticipants ==
    {c \in ConnSet :
        /\ conn[c].currentRoom = conn[last.ws].currentRoom
        /\ c \in last.broken \/ conn[c].state = "closed"}

\* C11: when, during a broadcast, the send to one participant throws or that
\* participant's socket is not open, every other open participant still gets
\* the message, the handler does not fail, and the log change made before the
\* broadcast stays.
C11_DeliveryIsolation ==
    (Broadcasting /\ FailingParticipants # {})
    => /\ ~last.threw
       /\ \A c \in Recipients \ last.broken : Delivered(c, last.data.type)
       /\ last.data.type = "ERASE"
             => /\ Len(SenderHistory) > 0
                /\ Last(SenderHistory).operationId = Get(last.data, "operationId")
       /\ last.data.type = "CLEAR_CANVAS" => SenderHistory = <<>>

\* the room object the closing connection's handler held, and its name
ClosedRoom == last.pre.conn[last.ws].currentRoom

ClosedRoomId == last.pre.heap[ClosedRoom].id

\* the last event closed the only open connection of a room the directory holds
LastLeave ==
    /\ last.kind = "close"
    /\ ClosedRoom # NoRoom
    /\ last.pre.rooms[ClosedRoomId] = ClosedRoom
    /\ \A c \in ConnSet \ {last.ws} :
          ~(conn[c].state = "open" /\ conn[c].currentRoom = ClosedRoom)

\* C12: the close of the last connection of a room does not destroy the room:
\* the directory still holds it under its name, with its history as it was.
C12_NoSynchronousDestroy ==
    LastLeave
    => /\ rooms[ClosedRoomId] = ClosedRoom
       /\ heap[ClosedRoom].drawingState.drawingHistory
             = last.pre.heap[ClosedRoom].drawingState.drawingHistory

\* the rooms the last event removed from the directory
Destroyed == {r \in RoomIds : last.pre.rooms[r] # NoRoom /\ rooms[r] # last.pre.rooms[r]}

\* the open connections whose JOIN_ROOM put them in room object ref
ParticipantsOf(ref) == {c \in ConnSet : conn[c].state = "open" /\ conn[c].currentRoom = ref}

\* C13: a room the idle sweep destroys has no participant at that moment and
\* its last activity lies more than one hour back.
C13_SweepSparesOccupied ==
    last.kind = "sweep"
    => \A r \in Destroyed :
          /\ ParticipantsOf(last.pre.rooms[r]) = {}
          /\ last.pre.heap[last.pre.rooms[r]].lastActivityAt < now - oneHourInMs

\* the room objects whose participant set (room.clients) holds connection c
MemberOf(c) == {ref \in 1..Len(heap) : mapHas(heap[ref].clients, c)}

PreSenderRoom == last.pre.heap[last.pre.conn[last.ws].currentRoom]

PostSenderRoom == heap[last.pre.conn[last.ws].currentRoom]

\* the last message was an Undo naming no operation of the history, or a Redo
\* with nothing to redo
UndoMiss ==
    /\ JoinedSent({"UNDO"})
    /\ \A i \in 1..Len(PreSenderRoom.drawingState.drawingHistory) :
          PreSenderRoom.drawingState.drawingHistory[i].id # Get(last.data, "operationId")

RedoMiss == JoinedSent({"REDO"}) /\ PreSenderRoom.drawingState.redoStack = <<>>

\* C15: an Undo that names no operation of the history and a Redo on an empty
\* redo buffer leave history, redo buffer and audit trail as they were and no
\* message is sent to anybody.
C15_LogicalMiss ==
    (UndoMiss \/ RedoMiss)
    => /\ PostSenderRoom.drawingState.drawingHistory = PreSenderRoom.drawingState.drawingHistory
       /\ PostSenderRoom.drawingState.redoStack = PreSenderRoom.drawingState.redoStack
       /\ PostSenderRoom.drawingState.operationHistory
             = PreSenderRoom.drawingState.operationHistory
       /\ sent = <<>>

\* an Undo of an operation that an earlier Undo already removed
C15_Witness ==
    /\ UndoMiss
    /\ \E i \in 1..Len(PreSenderRoom.drawingState.redoStack) :
          PreSenderRoom.drawingState.redoStack[i].id = Get(last.data, "operationId")

\* the last message parsed, and its type is none the switch knows
Unrecognized ==
    /\ last.kind = "message"
    /\ last.data # BadJson
    /\ Get(last.data, "type") \notin {"JOIN_ROOM", "DRAW", "ERASE", "UNDO", "REDO",
                                      "CLEAR_CANVAS", "CURSOR_MOVE"}

\* the last message was a Draw or Erase without one of the fields of its kind
MissingFields ==
    /\ last.kind = "message"
    /\ \/ /\ Get(last.data, "type") = "DRAW"
          /\ ~({"x0", "y0", "x1", "y1", "color", "size"} \subseteq DOMAIN last.data)
       \/ /\ Get(last.data, "type") = "ERASE"
          /\ ~({"x0", "y0", "x1", "y1", "size"} \subseteq DOMAIN last.data)

\* the ERROR replies the last event sent
Errors == SelectSeq(sent, LAMBDA m : m.msg.type = "ERROR")

Relayed == SelectSeq(sent, LAMBDA m : m.msg.type \in {"DRAW", "ERASE"})

\* C18: a participant's Draw or Erase that misses a required field is dropped:
\* the room's history stays as it was and nothing is relayed; and whatever Draw
\* or Erase is relayed is the operation just appended to the room's history.
C18_MalformedDropped ==
    /\ (JoinedSent({"DRAW", "ERASE"}) /\ MissingFields)
       => /\ PostSenderRoom.drawingState.drawingHistory
               = PreSenderRoom.drawingState.drawingHistory
          /\ Relayed = <<>>
    /\ (JoinedSent({"DRAW", "ERASE"}) /\ Relayed # <<>>)
       => /\ Len(SenderHistory) > 0
          /\ Last(SenderHistory).type = last.data.type
          /\ Last(SenderHistory).operationId = Get(last.data, "operationId")

\* the last message failed: it could not be parsed, its type is unknown, or its
\* handler threw
ProcessingFailed ==
    /\ last.kind = "message"
    /\ last.threw \/ Unrecognized

\* C19: a message whose processing fails leaves the room directory and, in
\* every room, the participant set, the color counter, the history, the redo
\* buffer and the audit trail as they were before the message.
C19_FailureLeavesState ==
    ProcessingFailed
    => /\ rooms = last.pre.rooms
       /\ Len(heap) = Len(last.pre.heap)
       /\ \A ref \in 1..Len(last.pre.heap) :
             /\ heap[ref].clients = last.pre.heap[ref].clients
             /\ heap[ref].userColorIndex = last.pre.heap[ref].userColorIndex
             /\ heap[ref].drawingState.drawingHistory
                   = last.pre.heap[ref].drawingState.drawingHistory
             /\ heap[ref].drawingState.redoStack = last.pre.heap[ref].drawingState.redoStack
             /\ heap[ref].drawingState.operationHistory
                   = last.pre.heap[ref].drawingState.operationHistory

\* the log of a room is as clear() leaves it
Cleared(d) == d.drawingHistory = <<>> /\ d.redoStack = <<>> /\ d.operationHistory = <<>>

\* the next event is a JoinRoom into the room the last message's sender is in
JoinsSenderRoom ==
    /\ JoinProcessed'
    /\ rooms[JoinTarget'] = conn[last.ws].currentRoom

\* the next event is a Redo in the room the last message's sender is in
RedoInSenderRoom ==
    /\ JoinedSent({"REDO"})'
    /\ conn[last'.ws].currentRoom = conn[last.ws].currentRoom

\* C20: a participant's ClearAll empties history, redo buffer and audit trail
\* of its room; a JoinRoom into that room right after it is answered with a
\* LoadHistory whose operations are [], and a Redo right after it restores
\* nothing.
C20_ClearAll ==
    /\ [](JoinedSent({"CLEAR_CANVAS"}) => Cleared(SenderRoom.drawingState))
    /\ [][(JoinedSent({"CLEAR_CANVAS"}) /\ JoinsSenderRoom)
            => /\ Len(LoadHistories') = 1
               /\ LoadHistories'[1].to = last'.ws
               /\ LoadHistories'[1].msg.drawingHistory = <<>>]_vars
    /\ [][(JoinedSent({"CLEAR_CANVAS"}) /\ RedoInSenderRoom)
            => /\ Cleared(SenderRoom.drawingState')
               /\ \A i \in 1..Len(sent') : sent'[i].msg.type # "REDO"]_vars

\* ---------------------------------------------------- claims on DrawingState
PreHistory == call.pre.drawingHistory

UndoTarget == Get(call.arg, "operationId")

\* the operation handed to addOperation lacks a field its kind requires, or its
\* kind is none of DRAW, ERASE, CLEAR_CANVAS
LacksRequired(op) ==
    \/ ~({"type", "userId", "timestamp"} \subseteq DOMAIN op)
    \/ op.type \notin {"DRAW", "ERASE", "CLEAR_CANVAS"}
    \/ op.type = "DRAW" /\ ~({"x0", "y0", "x1", "y1", "color", "size"} \subseteq DOMAIN op)
    \/ op.type = "ERASE" /\ ~({"x0", "y0", "x1", "y1", "size"} \subseteq DOMAIN op)

\* C16: addOperation rejects an operation that lacks a field required for its
\* kind or whose kind is unknown, and on rejection history, redo buffer and
\* audit trail are unchanged.
C16_AppendRejected ==
    (call.op = "addOperation" /\ LacksRequired(call.arg))
    => /\ ~call.ok
       /\ ds.drawingHistory = call.pre.drawingHistory
       /\ ds.redoStack = call.pre.redoStack
       /\ ds.operationHistory = call.pre.operationHistory

\* a Draw without color is rejected while history and redo buffer hold entries
C16_Witness ==
    /\ call.op = "addOperation"
    /\ call.arg.type = "DRAW"
    /\ "color" \notin DOMAIN call.arg
    /\ ~call.ok
    /\ call.pre.drawingHistory # <<>>
    /\ call.pre.redoStack # <<>>

\* C1: undo(id) of an id present in history removes exactly one operation, one
\* with that id, wherever it sits; the others keep their relative order and the
\* removed operation is pushed onto the redo buffer.
C1_UndoRemovesById ==
    (call.op = "recordUndo" /\ UndoTarget \in {PreHistory[i].id : i \in 1..Len(PreHistory)})
    => /\ call.ok
       /\ \E i \in 1..Len(PreHistory) :
            /\ PreHistory[i].id = UndoTarget
            /\ ds.drawingHistory =
                   SubSeq(PreHistory, 1, i - 1) \o SubSeq(PreHistory, i + 1, Len(PreHistory))
            /\ ds.redoStack = Append(call.pre.redoStack, PreHistory[i])

\* append(A); append(B); undo(A.id) has left history == [B] and A on the redo buffer
C1_Witness ==
    /\ call.op = "recordUndo" /\ call.ok
    /\ Ids(PreHistory) = <<"o1", "o2">>
    /\ UndoTarget = "o1"
    /\ Ids(ds.drawingHistory) = <<"o2">>
    /\ Ids(ds.redoStack) = <<"o1">>

\* C2: redo() with a non-empty redo buffer pops the most recently undone
\* operation and appends it unchanged at the end of history; the operations
\* already in history keep their order.
C2_RedoAppendsAtEnd ==
    (call.op = "recordRedo" /\ Len(call.pre.redoStack) > 0)
    => /\ call.ok
       /\ ds.drawingHistory = Append(PreHistory, Last(call.pre.redoStack))
       /\ ds.redoStack = Front(call.pre.redoStack)

\* append(A); append(B); undo(A.id); redo() has left history == [B, A], A with
\* the stamp it got before B was appended
C2_Witness ==
    /\ call.op = "recordRedo" /\ call.ok
    /\ Ids(ds.drawingHistory) = <<"o2", "o1">>
    /\ ds.drawingHistory[2].addedAt < ds.drawingHistory[1].addedAt

\* C3: right after an accepted append the redo buffer is empty, and a redo()
\* that follows an accepted append fails and leaves the log unchanged.
C3_RedoInvalidation ==
    /\ []((call.op = "addOperation" /\ call.ok) => ds.redoStack = <<>>)
    /\ [][(call.op = "addOperation" /\ call.ok /\ call'.op = "recordRedo")
            => (~call'.ok /\ ds' = ds)]_vars

\* append(A); undo(A.id); append(C); redo(): two appends, one undo on the audit
\* trail, one operation left in history, and the redo failed
C3_Witness ==
    /\ call.op = "recordRedo" /\ ~call.ok
    /\ Len(call.pre.operationStack) = 2
    /\ Len(call.pre.operationHistory) = 1
    /\ Len(PreHistory) = 1
    /\ ds = call.pre

\* C4: history never holds more than maxHistorySize operations, and an accepted
\* append onto a full history leaves it exactly full.
C4_CapacityBound ==
    /\ Len(ds.drawingHistory) <= maxHistorySize
    /\ (call.op = "addOperation" /\ call.ok /\ Len(PreHistory) = maxHistorySize)
        => Len(ds.drawingHistory) = maxHistorySize

\* maxHistorySize + 1 operations were appended
C4_Witness ==
    /\ call.op = "addOperation" /\ call.ok
    /\ Len(ds.operationStack) = maxHistorySize + 1
    /\ Len(ds.drawingHistory) = maxHistorySize

\* C5: an append accepted while history is full yields the old history without
\* its first element followed by the new operation.
C5_EvictOldestFirst ==
    (call.op = "addOperation" /\ call.ok /\ Len(PreHistory) = maxHistorySize)
    => /\ Front(ds.drawingHistory) = Tail(PreHistory)
       /\ Len(ds.drawingHistory) = Len(PreHistory)
       /\ \A k \in DOMAIN call.arg : Last(ds.drawingHistory)[k] = call.arg[k]
       /\ Truthy(UndoTarget) => Last(ds.drawingHistory).id = UndoTarget

\* a full history of two different operations took a third one
C5_Witness ==
    /\ call.op = "addOperation" /\ call.ok
    /\ Len(PreHistory) = maxHistorySize
    /\ PreHistory[1].id # PreHistory[2].id
    /\ Last(ds.drawingHistory).id \notin {PreHistory[1].id, PreHistory[2].id}

\* the id an Undo names is the id of a ClearAll operation of the history
UndoNamesClearAll ==
    /\ call.op = "recordUndo"
    /\ \E i \in 1..Len(PreHistory) :
          PreHistory[i].id = UndoTarget /\ PreHistory[i].type = "CLEAR_CANVAS"

\* C21: an undo that names the id of a ClearAll operation is rejected, history
\* and redo buffer stay as they were, even when that operation is in history.
C21_ClearAllNotUndoable ==
    UndoNamesClearAll
    => /\ ~call.ok
       /\ ds.drawingHistory = call.pre.drawingHistory
       /\ ds.redoStack = call.pre.redoStack

\* ------------------------------------------- claims on longer editing sessions
\* the last message was an Undo that removed an operation from the history
UndoRemoved ==
    /\ JoinedSent({"UNDO"})
    /\ ~UndoMiss

\* the operation that Undo removed
Undone ==
    LET h == PreSenderRoom.drawingState.drawingHistory
    IN  h[CHOOSE i \in 1..Len(h) :
              /\ h[i].id = Get(last.data, "operationId")
              /\ \A j \in 1..(i - 1) : h[j].id # Get(last.data, "operationId")]

\* the next event is a Redo from another connection in the same room
RedoByOther == RedoInSenderRoom /\ last'.ws # last.ws

\* C22: a Redo that another participant of the room sends right after a
\* participant's successful Undo of o succeeds: it puts o back at the end of the
\* history and takes it off the redo buffer.
C22_SharedRedo ==
    [][(UndoRemoved /\ RedoByOther)
         => /\ SenderHistory' = Append(SenderHistory, Undone)
            /\ SenderRoom.drawingState.redoStack'
                  = Front(SenderRoom.drawingState.redoStack)]_vars

\* a Redo restored the operation that a different connection had undone
C22_Witness ==
    /\ JoinedSent({"REDO"})
    /\ ~RedoMiss
    /\ LET a == PostSenderRoom.drawingState.operationHistory
           n == Len(a)
       IN  /\ n >= 2
           /\ a[n].type = "REDO" /\ a[n - 1].type = "UNDO"
           /\ a[n].readdedOperationId = a[n - 1].removedOperationId
           /\ last.undoer \notin {NoWs, last.ws}
           /\ Last(SenderHistory).id = a[n].readdedOperationId

\* -------------------------------------------- claims on the server, continued
RoomBroadcasts ==
    {"DRAW", "ERASE", "UNDO", "REDO", "CLEAR_CANVAS", "CURSOR_MOVE", "USER_JOINED",
     "USER_LEFT"}

\* the room object the last message or close was processed for (NoRoom: none)
OriginRoom ==
    IF last.kind = "message" THEN conn[last.ws].currentRoom
    ELSE last.pre.conn[last.ws].currentRoom

\* the id of that room
OriginId == IF OriginRoom = NoRoom THEN Undefined ELSE heap[OriginRoom].id

RecordedColor(W, c) ==
    IF W.conn[c].currentRoom = NoRoom THEN Undefined
    ELSE Get(mapGet(W.heap[W.conn[c].currentRoom].clients, c), "color")

\* the number of JoinRooms processed for the joined room before the last one
JoinsBefore ==
    IF last.pre.rooms[JoinTarget] = NoRoom THEN 0
    ELSE last.pre.heap[last.pre.rooms[JoinTarget]].userColorIndex

\* the k-th JoinRoom processed for a room records palette[k mod 12] as the
\* color of the joining connection
C25_JoinColor ==
    JoinProcessed
    => RecordedColor(World, last.ws) = USER_COLORS[(JoinsBefore % Len(USER_COLORS)) + 1]

\* a color recorded for a connection is the same after every message
C25_ColorStable ==
    last.kind = "message"
    => \A c \in ConnSet :
          RecordedColor(last.pre, c) # Undefined
          => RecordedColor(World, c) = RecordedColor(last.pre, c)

\* C25: colors are assigned round-robin from the palette, the k-th join to a
\* room gets palette[k mod 12], and the color recorded for a connection does
\* not change while the connection stays open.
C25_RoundRobinColor == C25_JoinColor /\ C25_ColorStable

\* the user ids of the participants the clients map of a room holds, in join order
RosterIds(room) == [i \in 1..Len(room.clients) |-> room.clients[i].info.userId]

\* connection c was sent, and got, a roster message of this type that lists the
\* participants of room ref in join order and counts them
RosterDelivered(c, type, ref) ==
    \E i \in 1..Len(sent) :
        /\ sent[i].to = c /\ sent[i].ok
        /\ sent[i].msg.type = type
        /\ [j \in 1..Len(sent[i].msg.users) |-> sent[i].msg.users[j].userId]
              = RosterIds(heap[ref])
        /\ sent[i].msg.clientCount = Len(heap[ref].clients)

\* the open connections that stay in the room of the connection that closed
Remaining ==
    {c \in ConnSet \ {last.ws} :
        conn[c].state = "open" /\ conn[c].currentRoom = ClosedRoom}

\* C26: after a join every participant of the room, the joiner included, gets a
\* USER_JOINED and after a leave every remaining participant gets a USER_LEFT;
\* the message lists the room's participants in join order, its count is their
\* number, and the participant that left is not listed.
C26_RosterChanged ==
    /\ JoinProcessed
       => \A c \in (OtherParticipants \cup {last.ws}) \ last.broken :
             RosterDelivered(c, "USER_JOINED", conn[last.ws].currentRoom)
    /\ (last.kind = "close" /\ ClosedRoom # NoRoom)
       => /\ \A c \in Remaining \ last.broken :
                RosterDelivered(c, "USER_LEFT", ClosedRoom)
          /\ \A i \in 1..Len(heap[ClosedRoom].clients) :
                heap[ClosedRoom].clients[i].ws # last.ws

\* no record of the sequence is a cursor move
NoCursorMove(seq) == \A i \in 1..Len(seq) : Get(seq[i], "type") # "CURSOR_MOVE"

\* C27: a CursorMove changes no room (history, redo buffer, audit trail and
\* participants stay as they were) and no connection, it is sent to nobody but
\* the other participants of the sender's room, and no log and no LoadHistory
\* ever holds a cursor move.
C27_CursorEphemeral ==
    /\ (last.kind = "message" /\ Get(last.data, "type") = "CURSOR_MOVE")
       => /\ heap = last.pre.heap
          /\ rooms = last.pre.rooms
          /\ conn = last.pre.conn
          /\ \A i \in 1..Len(sent) :
                sent[i].msg.type = "CURSOR_MOVE" /\ sent[i].to \in OtherParticipants
    /\ \A ref \in 1..Len(heap) :
          /\ NoCursorMove(heap[ref].drawingState.drawingHistory)
          /\ NoCursorMove(heap[ref].drawingState.redoStack)
          /\ NoCursorMove(heap[ref].drawingState.operationHistory)
    /\ \A i \in 1..Len(sent) :
          sent[i].msg.type = "LOAD_HISTORY"
          => /\ NoCursorMove(sent[i].msg.drawingHistory)
             /\ NoCursorMove(sent[i].msg.operationHistory)

\* a CursorMove was processed for a room whose history holds an operation
C27_Witness ==
    /\ JoinedSent({"CURSOR_MOVE"})
    /\ SenderHistory # <<>>

\* the last message changed the history of its sender's room
HistoryChanged ==
    /\ JoinedSent({"DRAW", "ERASE", "UNDO", "REDO", "CLEAR_CANVAS"})
    /\ SenderHistory # PreSenderRoom.drawingState.drawingHistory

\* the id of the operation the last message appended, removed or restored
ChangedId ==
    IF last.data.type = "UNDO" THEN Undone.id
    ELSE IF SenderHistory = <<>> THEN Undefined
    ELSE Last(SenderHistory).id

\* connection c got a message of the last message's type that names the
\* operation appended, removed or restored (a ClearAll names none)
ChangeDelivered(c) ==
    \E i \in 1..Len(sent) :
        /\ sent[i].to = c /\ sent[i].ok
        /\ sent[i].msg.type = last.data.type
        /\ last.data.type # "CLEAR_CANVAS" => Get(sent[i].msg, "operationId") = ChangedId

\* C23: a participant can keep a copy of its room's history: its JoinRoom is
\* answered with a LoadHistory that carries the history, and every message that
\* changes the history reaches every other participant (an Undo, Redo or ClearAll
\* its sender too) and names the operation appended, removed or restored.
C23_Convergence ==
    /\ (JoinProcessed /\ last.ws \notin last.broken)
       => \E i \in 1..Len(sent) :
             /\ sent[i].to = last.ws /\ sent[i].ok
             /\ sent[i].msg.type = "LOAD_HISTORY"
             /\ sent[i].msg.drawingHistory = stringifyOps(SenderHistory)
    /\ HistoryChanged
       => \A c \in Recipients \ last.broken : ChangeDelivered(c)

\* ------------------------------------------------- claims on the client
\* C28: the Undo message a tab sends when its user, having drawn a stroke,
\* triggers undo names an operation of the history of the tab's room; the server
\* removes it and every participant of the room gets the UNDO broadcast.
C28_EndToEndUndo ==
    (last.kind = "message" /\ Get(last.data, "type") = "UNDO")
    => /\ JoinedSent({"UNDO"})
       /\ ~UndoMiss
       /\ Len(SenderHistory) < Len(PreSenderRoom.drawingState.drawingHistory)
       /\ \A c \in OtherParticipants \cup {last.ws} : Delivered(c, "UNDO")

\* tab c has stopped retrying: its socket is closed and no reconnect is pending
GaveUp(c) == apps[c].socket = "closed" /\ ~apps[c].timer

\* C29: the reconnection counter of a tab never exceeds 5 and is 0 while the
\* socket is open; a tab whose socket is closed either has a reconnect pending
\* or has made 5 attempts and emitted CONNECTION_FAILED 'Max reconnection
\* attempts reached', and from then on it does nothing more.
C29_ReconnectLimit ==
    /\ [](\A c \in Clients :
            /\ apps[c].reconnectAttempts <= maxReconnectAttempts
            /\ apps[c].socket = "open" => apps[c].reconnectAttempts = 0
            /\ GaveUp(c)
               => /\ apps[c].reconnectAttempts = maxReconnectAttempts
                  /\ apps[c].emitted.type = "CONNECTION_FAILED"
                  /\ apps[c].emitted.data = "Max reconnection attempts reached")
    /\ [][\A c \in Clients : GaveUp(c) => apps'[c] = apps[c]]_vars

\* a tab that had joined lost its connection and gave up after 5 attempts
C29_Witness ==
    \E c \in Clients :
        /\ GaveUp(c)
        /\ apps[c].phase = "running"
        /\ apps[c].reconnectAttempts = maxReconnectAttempts
        /\ apps[c].emitted = Emitted("CONNECTION_FAILED",
                                     "Max reconnection attempts reached")

\* the step is a stroke the user of tab c draws
Draws(c) ==
    /\ apps'[c].drawingStates # apps[c].drawingStates
    /\ Len(apps'[c].canvas) = Len(apps[c].canvas) + 1

\* tab c is connected through a socket that a reconnection opened
Reconnected(c) ==
    /\ apps[c].phase = "running"
    /\ apps[c].socket = "open"
    /\ apps[c].reopened

\* the other tabs that joined the room of tab c and are connected
OtherTabs(c) ==
    {d \in Clients \ {c} :
        /\ apps[d].phase = "running" /\ apps[d].socket = "open"
        /\ apps[d].currentRoom = apps[c].currentRoom}

\* C30: a stroke drawn in a tab after its connection dropped and a reconnection
\* succeeded is sent, the server appends it to the history of the tab's room,
\* of which the new connection is a participant, and relays it to the other
\* tabs in that room.
C30_DrawAfterReconnect ==
    [][\A c \in Clients :
          (Reconnected(c) /\ Draws(c))
          => /\ apps'[c].sentOps = apps[c].sentOps + 1
             /\ rooms'[apps[c].currentRoom] # NoRoom
             /\ conn'[apps[c].ws].currentRoom = rooms'[apps[c].currentRoom]
             /\ LET h == heap'[rooms'[apps[c].currentRoom]].drawingState.drawingHistory
                IN  /\ h # <<>>
                    /\ Last(h).id = generateOperationId(c, apps'[c].sentOps)
             /\ \A d \in OtherTabs(c) :
                   \E i \in 1..Len(sent') :
                      /\ sent'[i].to = apps[d].ws /\ sent'[i].ok
                      /\ sent'[i].msg.type \in {"DRAW", "ERASE"}]_vars

\* ---------------------------------------- claims on DrawingState, continued
\* the last call was an accepted addOperation
Appended == call.op = "addOperation" /\ call.ok

SendsTo(c, types) ==
    {i \in 1..Len(sent) : sent[i].to = c /\ sent[i].ok /\ sent[i].msg.type \in types}

\* the last message appended an operation to the history of its sender's room
AppendedToRoom ==
    /\ JoinedSent({"DRAW", "ERASE"})
    /\ SenderRoom.drawingState.operationStack
         # PreSenderRoom.drawingState.operationStack

\* C33: a joiner misses no operation and gets none twice: its JoinRoom is
\* answered by exactly one LoadHistory holding the whole history of the room at
\* that moment and by no relay, and every operation another participant appends
\* afterwards is relayed to it exactly once.
C33_NoGapNoDuplicate ==
    /\ (JoinProcessed /\ last.ws \notin last.broken)
       => /\ Cardinality(SendsTo(last.ws, {"LOAD_HISTORY"})) = 1
          /\ \A i \in SendsTo(last.ws, {"LOAD_HISTORY"}) :
                sent[i].msg.drawingHistory = stringifyOps(SenderHistory)
          /\ SendsTo(last.ws, {"DRAW", "ERASE"}) = {}
    /\ AppendedToRoom
       => \A c \in OtherParticipants \ last.broken :
             /\ Cardinality(SendsTo(c, {"DRAW", "ERASE"})) = 1
             /\ SendsTo(c, {"LOAD_HISTORY"}) = {}

\* --------------------------------------- claims on DrawingState, concluded
\* C34: history and redo stack together never hold more than maxHistorySize
\* operations.
C34_CombinedBound ==
    Len(ds.drawingHistory) + Len(ds.redoStack) <= maxHistorySize

\* a full history was undone into the redo stack: the bound is met with
\* operations on both sides
C34_Witness ==
    /\ call.op = "recordUndo" /\ call.ok
    /\ Len(call.pre.drawingHistory) = maxHistorySize
    /\ Len(ds.redoStack) > 0
    /\ Len(ds.drawingHistory) + Len(ds.redoStack) = maxHistorySize

\* C35: operation ids are unique handles: no two operations of the history
\* share an id, and no id is in the history and in the redo stack at once.
C35_UniqueIds ==
    /\ \A i, j \in 1..Len(ds.drawingHistory) :
          ds.drawingHistory[i].id = ds.drawingHistory[j].id => i = j
    /\ \A i \in 1..Len(ds.drawingHistory) : \A j \in 1..Len(ds.redoStack) :
          ds.drawingHistory[i].id # ds.redoStack[j].id

\* ------------------------------------------ claims on connections and rooms
\* the last event was a message of one of these types from a connection whose
\* handler held no room (no JOIN_ROOM of it had been processed)
UnjoinedSent(types) ==
    /\ last.kind = "message"
    /\ Get(last.data, "type") \in types
    /\ last.pre.conn[last.ws].currentRoom = NoRoom

\* C36: a Draw, Erase, Undo, Redo, ClearAll or CursorMove of a connection that
\* has not joined a room changes no room, no participant set and no registry
\* entry, creates no room and is sent on to no other connection.
C36_UnjoinedIgnored ==
    UnjoinedSent({"DRAW", "ERASE", "UNDO", "REDO", "CLEAR_CANVAS", "CURSOR_MOVE"})
    => /\ heap = last.pre.heap
       /\ rooms = last.pre.rooms
       /\ conn = last.pre.conn
       /\ \A i \in 1..Len(sent) : sent[i].to = last.ws

\* a connection that has not joined sent a ClearAll while another connection
\* held a room whose history was not empty
C36_Witness ==
    /\ UnjoinedSent({"CLEAR_CANVAS"})
    /\ \E c \in ConnSet \ {last.ws} :
          /\ conn[c].state = "open"
          /\ conn[c].currentRoom # NoRoom
          /\ heap[conn[c].currentRoom].drawingState.drawingHistory # <<>>

\* C37: the room object an open connection's handler holds is the one the
\* registry resolves for that room's name, so two open connections that joined
\* the same name hold one room object and share its log.
C37_HeldRoomIsCurrent ==
    /\ \A c \in ConnSet :
          (conn[c].state = "open" /\ conn[c].currentRoom # NoRoom)
          => rooms[heap[conn[c].currentRoom].id] = conn[c].currentRoom
    /\ \A c, d \in ConnSet :
          (/\ conn[c].state = "open" /\ conn[c].currentRoom # NoRoom
           /\ conn[d].state = "open" /\ conn[d].currentRoom # NoRoom
           /\ heap[conn[c].currentRoom].id = heap[conn[d].currentRoom].id)
          => conn[c].currentRoom = conn[d].currentRoom

\* the operations a DrawingState holds, in history or on the redo stack
Held(d) ==
    {d.drawingHistory[i] : i \in 1..Len(d.drawingHistory)}
        \cup {d.redoStack[i] : i \in 1..Len(d.redoStack)}

\* C38: addedAt is monotone in the order of the appends and fixed afterwards:
\* an accepted append is stamped with the clock's value, which no operation
\* stamped before exceeds, and an undo or redo moves operations with all their
\* fields as they were.
C38_AddedAtMonotone ==
    /\ \A op \in Held(ds) : op.addedAt <= now
    /\ Appended
       => \A op \in Held(call.pre) : op.addedAt <= Last(ds.drawingHistory).addedAt
    /\ (call.op \in {"recordUndo", "recordRedo"} /\ call.ok)
       => Held(ds) = Held(call.pre)

\* an operation appended after another and then undone came back, later, with
\* the stamp of its append
C38_Witness ==
    /\ call.op = "recordRedo" /\ call.ok
    /\ Len(ds.drawingHistory) = 2
    /\ ds.drawingHistory[1].addedAt < ds.drawingHistory[2].addedAt
    /\ ds.drawingHistory[2].addedAt < now

\* the last call made again on the state it found, with the audit trail blanked
\* (an append with the id and the stamp the call gave it)
Replayed ==
    LET blank == [call.pre EXCEPT !.operationHistory = <<>>]
    IN  IF call.op = "addOperation"
        THEN IF call.ok
             THEN addOperation(blank, call.arg, Last(ds.drawingHistory).id,
                               Last(ds.drawingHistory).addedAt).ds
             ELSE blank
        ELSE IF call.op = "recordUndo" THEN recordUndo(blank, call.arg, now).ds
        ELSE IF call.op = "recordRedo" THEN recordRedo(blank, call.arg, now).ds
        ELSE IF call.op = "clear" THEN clear(blank)
        ELSE blank

\* C39: a successful undo or redo adds one record to the audit trail, naming
\* the operation removed or restored, behind the records already there; a failed
\* undo or redo and an append leave the trail as it was; and what a call does to
\* history and redo stack does not depend on the trail.
C39_AuditTrail ==
    LET pre == call.pre.operationHistory
        post == ds.operationHistory
    IN  /\ (call.op \in {"recordUndo", "recordRedo"} /\ call.ok)
           => /\ Len(post) = Len(pre) + 1
              /\ SubSeq(post, 1, Len(pre)) = pre
              /\ call.op = "recordUndo"
                 => Last(post).removedOperationId = Last(ds.redoStack).id
              /\ call.op = "recordRedo"
                 => Last(post).readdedOperationId = Last(ds.drawingHistory).id
        /\ (call.op = "addOperation" \/ ~call.ok) => post = pre
        /\ Replayed.drawingHistory = ds.drawingHistory
        /\ Replayed.redoStack = ds.redoStack

\* an undo succeeded on a state whose audit trail already held the records of
\* an undo and a redo
C39_Witness ==
    /\ call.op = "recordUndo" /\ call.ok
    /\ Len(call.pre.operationHistory) = 2
    /\ Len(ds.operationHistory) = 3

\* ----------------------------------------------- claims on the canvas stack
\* the snapshots saveState() keeps of the stack it finds: those up to the
\* current index
KeptStates(a) == SubSeq(a.drawingStates, 1, a.currentStateIndex + 1)

\* C40: a tab's snapshot stack holds between one and maxHistoryStates
\* snapshots and currentStateIndex is an index of it; saveState() leaves the
\* index at the last snapshot, which is the canvas, on top of the snapshots up
\* to the previous index (without the oldest one when they filled the stack).
C40_SnapshotStack ==
    LET a == apps[CanvasTab]
    IN  /\ Len(a.drawingStates) >= 1
        /\ Len(a.drawingStates) <= maxHistoryStates
        /\ a.currentStateIndex >= 0
        /\ a.currentStateIndex <= Len(a.drawingStates) - 1
        /\ call.op = "saveState"
           => /\ a.currentStateIndex = Len(a.drawingStates) - 1
              /\ Last(a.drawingStates) = a.canvas
              /\ Front(a.drawingStates)
                    = IF Len(KeptStates(call.pre)) >= maxHistoryStates
                      THEN Tail(KeptStates(call.pre)) ELSE KeptStates(call.pre)

\* saveState() ran on a full stack whose index was at the end: the oldest
\* snapshot left
C40_Witness ==
    /\ call.op = "saveState"
    /\ Len(call.pre.drawingStates) = maxHistoryStates
    /\ call.pre.currentStateIndex = maxHistoryStates - 1
    /\ Len(apps[CanvasTab].drawingStates) = maxHistoryStates
====
